---------------------------- MODULE Spec2Model ----------------------------
(***************************************************************************)
(* A model of local-sales-finder-mobile:                                   *)
(*   - the notification dispatcher of the Cloud Functions entry point      *)
(*     (src/unnamed/part_000: calculateDistance, sendNotificationToUser,   *)
(*     onNewSaleEvent), with the registration store it reads and prunes;   *)
(*   - the live feed of the Home page (src/src/utils/locationUtils.js:     *)
(*     the sales listener effect and its onSnapshot callback).             *)
(*                                                                         *)
(* Coordinates.  All points of the model lie on one meridian, so the       *)
(* haversine formula reduces to R * |lat2 - lat1| (in radians).  A         *)
(* latitude is an integer number of angle units of 1 / UnitsPerMile        *)
(* radians, and a distance or a radius is an integer number of             *)
(* 1 / UnitsPerMile miles: the product R * |lat2 - lat1| is then exact.    *)
(***************************************************************************)
EXTENDS Integers, Sequences, FiniteSets, TLC

\* ------------------------------------------------------------------ bounds
MaxRegs == 3        \* registrations in the store when the model starts
MaxEvents == 2      \* documents created under saleEvents/
MaxPublished == 1   \* sales published by the client (Home / MySales)
MaxListings == 3    \* live listings in the collection 'sales' at a time
MaxFetchCalls == 2  \* calls of fetchLocation in one session of the Home page
MaxFlows == 2       \* clicks of the floating button (create or end) in one session
MaxConfirmations == 2  \* calls of handleConfirmation in one session
MaxSaves == 2       \* calls of saveTokenToDatabase on one browser
MaxRemoves == 1     \* calls of removeToken on one browser
MaxSaleDocs == 2    \* documents of one user in 'sales'
MaxTabs == 2        \* tabs in which the user has MySales open
MaxLogins == 2      \* sign-ins in one session of the AuthProvider

\* ------------------------------------------------------- JavaScript values
\* A number that is missing (undefined) and the result of arithmetic on it.
Undefined == 0 - 1000000
NaN == 0 - 2000000

\* !x for a number or undefined: undefined, 0 and NaN are falsy.
Truthy(x) == x # Undefined /\ x # NaN /\ x # 0

Abs(x) == IF x < 0 THEN 0 - x ELSE x

\* a <= b in JavaScript: false as soon as one side is NaN or undefined.
LessEq(a, b) == a # NaN /\ b # NaN /\ a # Undefined /\ b # Undefined /\ a <= b

\* One mile in distance units: the client's distances are then hundredths of
\* a mile per angle unit.
UnitsPerMile == 100 * 3959
Miles(n) == n * UnitsPerMile

\* The meridian every point of the model lies on.
Meridian == 0 - 122

NoLocation == [defined |-> FALSE, latitude |-> Undefined, longitude |-> Undefined]
At(lat) == [defined |-> TRUE, latitude |-> lat, longitude |-> Meridian]
\* A location object without numeric fields, as in {location: {}}.
EmptyLocation == [defined |-> TRUE, latitude |-> Undefined, longitude |-> Undefined]

\* ------------------------------------------- functions/index.js (part_000)
R_functions == 3963

\* calculateDistance of the Cloud Function: haversine on one meridian.
calculateDistanceFn(lat1, lon1, lat2, lon2) ==
    IF lat1 = Undefined \/ lon1 = Undefined \/ lat2 = Undefined \/ lon2 = Undefined
    THEN NaN
    ELSE R_functions * Abs(lat2 - lat1)

\* The registrations the store may hold when the model starts: a document of
\* the collection group 'tokens' (users/{owner}/tokens/{doc}) with the
\* fields onNewSaleEvent reads.  The listings of the model are created at
\* latitude SaleLat.
SaleLat == 2 * 1000

RegCatalog ==
    << \* 2.5 miles away, radius 5 miles
       [owner |-> "u1", token |-> "t1", location |-> At(SaleLat - 250),
        searchRadius |-> Miles(5)],
       \* at a distance exactly equal to its radius
       [owner |-> "u2", token |-> "t2", location |-> At(SaleLat - 500),
        searchRadius |-> R_functions * 500],
       \* 7.5 miles away, radius 5 miles
       [owner |-> "u3", token |-> "t3", location |-> At(SaleLat + 750),
        searchRadius |-> Miles(5)],
       \* no location
       [owner |-> "u1", token |-> "t4", location |-> NoLocation,
        searchRadius |-> Miles(10)],
       \* no search radius
       [owner |-> "u2", token |-> "t5", location |-> At(SaleLat),
        searchRadius |-> Undefined],
       \* the token value of the first registration, under another owner
       [owner |-> "u3", token |-> "t1", location |-> At(SaleLat + 100),
        searchRadius |-> Miles(10)] >>

RegIds == 1 .. Len(RegCatalog)
Reg(d) == RegCatalog[d]

\* The locations a created document may carry.
EventLocations == {NoLocation, EmptyLocation, At(SaleLat)}

\* The collection the Cloud Function is registered on, and the collection the
\* client writes its sales to.
TriggerCollection == "saleEvents"
SalesCollection == "sales"

VARIABLES
    tokens,         \* the registration store: the ids of the documents it holds
    docs,           \* the documents created so far: <<[coll, location]>>
    pendingEvents,  \* onCreate events not yet delivered to onNewSaleEvent
    runCount,       \* per created document, the dispatcher runs started for it
    runState,       \* "idle" | "query" | "fanout"
    runEvent,       \* the document of the current (or last) run; 0: none yet
    runResult,      \* per created document: "none" | "pending" | "ok" | "error"
    snap,           \* tokenDocs.docs of the current run
    unit,           \* per registration, the state of its evaluate+notify unit
    delList,        \* per unit, the documents its prune has still to delete
    sends,          \* the messaging.send calls of the run: [doc, token]
    sendFailed,     \* the rejected sends of the run: [doc, token, code]
    deletes,        \* the documents the run deleted
    invalidated     \* the tokens reported unregistered in earlier runs

\* The Home page (the viewer's session) and the 'sales' collection it listens to.
VARIABLES
    live,           \* the listings of 'sales' whose status is 'live'
    coordinates,    \* useState(null): the tracked coordinates
    radius,         \* useState(10): the radius preference, in miles
    listener,       \* the onSnapshot subscription of the sales listener effect
    loading,        \* useState(true)
    sales,          \* useState([]): the array object React holds as `sales`
    pending,        \* address lookups in flight that will push to that array
    pub,            \* the last setSales: what was published, and from what
    error           \* useState(null): the error message of the page

\* The location tracker of the Home page: the state fetchLocation sets, the
\* closures of its calls and the geolocation requests they have made.
VARIABLES
    geolocation,      \* navigator.geolocation is present
    locationLoading,  \* useState(true)
    locationError,    \* useState(null): the message shown to the viewer
    calls,            \* the calls of fetchLocation made so far
    retryCount,       \* per call: `let retryCount` of its closure
    issued,           \* per call: the getCurrentPosition calls of retryWithFallback
    requests,         \* per call: its getCurrentPosition requests in flight
    watch,            \* per call: its watchPosition: "none" | "open" | "cleared"
    tornDown          \* the cleanups of the page's effects have run

\* The create and end flows of the Home page, and the documents of 'sales'
\* that belong to the signed-in user.
VARIABLES
    userLiveSale,        \* useState(null)
    fetched,             \* fetchUserLiveSale has returned
    isModalOpen,         \* useState(false): the create modal
    isConfirmationOpen,  \* useState(false): the confirmation dialog
    confirmationType,    \* useState(null): null | 'start' | 'end'
    newSale,             \* useState({eventType: '', description: ''})
    address,             \* useState('')
    isSubmitting,        \* useState(false)
    added,               \* the sale objects given to addDoc, in order of their ids
    updates,             \* the updateDoc calls that resolved: [doc, status, handler]
    handlers,            \* the calls of handleConfirmation
    flow                 \* the flows opened with the floating button so far

varsFeed == << live, coordinates, radius, listener, loading, sales, pending, pub >>

varsF == << varsFeed, error >>

varsS == << userLiveSale, fetched, isModalOpen, isConfirmationOpen,
            confirmationType, newSale, address, isSubmitting, added, updates,
            handlers, flow >>

varsL == << geolocation, locationLoading, locationError, calls, retryCount,
            issued, requests, watch, tornDown >>

\* The comparison of the two distance functions (functions/index.js and
\* geoUtils): the points and the radius compared, and what each side computes.
VARIABLES
    comparison

varsC == << comparison >>

\* The NotificationService of one browser, the account signed in on it, and
\* the registrations its users have written (users/{uid}/tokens/{token}).
VARIABLES
    authUser,   \* auth.currentUser: "null" or the uid of the signed-in user
    registry,   \* per path <<uid, token>>: the document, or NoRegistration
    saves,      \* the calls of saveTokenToDatabase
    removes     \* the calls of removeToken

varsR == << authUser, registry, saves, removes >>

\* The MySales page, open in the tabs of one signed-in user, and the
\* documents of 'sales' that belong to that user.
VARIABLES
    salesDocs,  \* the user's documents, by id: the status of each
    pages,      \* per tab: the state of the MySales component
    tasks       \* per tab: the handler that is running or ran last

varsM == << salesDocs, pages, tasks >>

\* The collection 'users' behind firestore.rules.
VARIABLES
    userDocs    \* per uid: the document users/{uid}, or NoUserDoc

varsP == << userDocs >>

\* The address field of the create modal (Home).
VARIABLES
    isEditingAddress,  \* useState(false)
    addressError,      \* useState('')
    addressSave        \* the click on 'Save' that is awaiting the geocoder

varsE == << isEditingAddress, addressError, addressSave >>

\* The AuthProvider: its state, the callbacks of onAuthStateChanged not yet
\* delivered, and the calls of checkAdminStatus awaiting getDoc.
VARIABLES
    currentUser,  \* useState(null): "null" or the uid
    isAdmin,      \* useState(false)
    authLoading,  \* useState(true): `loading` of the provider
    authEvents,   \* the users onAuthStateChanged has still to call back with
    lookups,      \* the uids of the calls of checkAdminStatus in flight
    logins        \* the sign-ins made so far

varsA == << currentUser, isAdmin, authLoading, authEvents, lookups, logins >>

\* The state outside the dispatcher.
varsOffDispatch == << varsF, varsL, varsS, varsC, varsR, varsM, varsP,
                       varsE, varsA >>

varsD == << tokens, docs, pendingEvents, runCount, runState, runEvent, runResult,
            snap, unit, delList, sends, sendFailed, deletes, invalidated >>

\* The state outside the sales listener, and outside the Home page.
varsOffFeed == << varsD, varsL, varsS, varsC, varsR, varsM, varsP,
                   varsE, varsA >>
varsOffTracker == << varsD, varsS, varsC, varsR, varsM, varsP,
                      varsE, varsA >>
varsOffFlow == << varsD, varsL, varsC, varsR, varsM, varsP,
                   varsE, varsA >>
varsOffRegistry == << varsD, varsF, varsL, varsS, varsC, varsM, varsP,
                       varsE, varsA >>
varsOffMySales == << varsD, varsF, varsL, varsS, varsC, varsR, varsP,
                      varsE, varsA >>
varsOffRules == << varsD, varsF, varsL, varsS, varsC, varsR, varsM,
                    varsE, varsA >>
varsOffAuth == << varsD, varsF, varsL, varsS, varsC, varsM, varsP, varsE >>

DocIds == 1 .. (MaxEvents + MaxPublished)
\* A unit whose promise has settled.
Resolved(u) == u \in {"skipped", "far", "done"}
Rejected(u) == u \in {"threw", "rejected"}
Settled(u) == Resolved(u) \/ Rejected(u) \/ u = "none"

\* The documents of a set, in the order a query returns them (by id).
RECURSIVE InOrder(_)
InOrder(S) ==
    IF S = {} THEN << >>
    ELSE LET m == CHOOSE x \in S : \A y \in S : x <= y
         IN << m >> \o InOrder(S \ {m})

InitD ==
    /\ tokens \in {S \in SUBSET RegIds : Cardinality(S) <= MaxRegs}
    /\ docs = << >>
    /\ pendingEvents = {}
    /\ runCount = [i \in DocIds |-> 0]
    /\ runState = "idle"
    /\ runEvent = 0
    /\ runResult = [i \in DocIds |-> "none"]
    /\ snap = {}
    /\ unit = [d \in RegIds |-> "none"]
    /\ delList = [d \in RegIds |-> << >>]
    /\ sends = {}
    /\ sendFailed = {}
    /\ deletes = {}
    /\ invalidated = {}

CountIn(coll) == Cardinality({i \in 1 .. Len(docs) : docs[i].coll = coll})

\* A document is created in collection coll.  Firestore raises the onCreate
\* event of a function for the documents of the collection it is registered on.
WriteDoc(coll, loc) ==
    LET id == Len(docs) + 1 IN
    /\ docs' = Append(docs, [coll |-> coll, location |-> loc])
    /\ pendingEvents' = IF coll = TriggerCollection
                        THEN pendingEvents \cup {id}
                        ELSE pendingEvents

\* --------------------------------------- the Home page (locationUtils.js)
R_client == 3959

\* calculateDistance of the client: haversine on one meridian.
calculateDistance(lat1, lon1, lat2, lon2) ==
    IF lat1 = Undefined \/ lon1 = Undefined \/ lat2 = Undefined \/ lon2 = Undefined
    THEN NaN
    ELSE R_client * Abs(lat2 - lat1)

\* Math.round(distance * 10) / 10, for a distance >= 0: the nearest tenth of
\* a mile, a half rounding up.
Tenth == UnitsPerMile \div 10
RoundToTenth(distance) == ((2 * distance + Tenth) \div (2 * Tenth)) * Tenth

\* The first position the device reports.
Origin == 10 * 100

\* The positions the device may report: the origin, one exactly 0.1 mile and
\* one 2 miles to the north of it.
Positions == {Origin, Origin + 10, Origin + 200}

\* const radiusOptions = [5, 10, 25, 50, 100]
radiusOptions == << 5, 10, 25, 50, 100 >>

\* The options the viewer of the model selects: the first two.  No listing of
\* the model is farther than 10 miles, so a larger radius filters as 10 does.
RadiusChoices == {radiusOptions[1], radiusOptions[2]}

\* The documents the collection 'sales' may hold: the fields the feed reads.
SaleCatalog ==
    << \* 5.00 miles north of the origin, with a stored address
       [location |-> At(Origin + 500), address |-> TRUE],
       \* 1.00 mile north, no stored address
       [location |-> At(Origin + 100), address |-> FALSE],
       \* 1.04 miles north, with a stored address
       [location |-> At(Origin + 104), address |-> TRUE],
       \* 5.01 miles north, with a stored address
       [location |-> At(Origin + 501), address |-> TRUE],
       \* no location
       [location |-> NoLocation, address |-> TRUE],
       \* 3.00 miles south, no stored address
       [location |-> At(Origin - 300), address |-> FALSE] >>

SaleIds == 1 .. Len(SaleCatalog)
Sale(l) == SaleCatalog[l]

\* No error message: null.
NoMessage == "null"

\* userLiveSale: null, or the sale object held.  `id` is undefined in an
\* object that has no such field; `doc` is the document the object stands for.
NoSale == [defined |-> FALSE, id |-> Undefined, status |-> "null", doc |-> 0]

\* The calls of handleConfirmation in one session.
Confirmations == 1 .. MaxConfirmations

\* A call of handleConfirmation that has not been made.  A call holds what
\* its closure captured (confirmationType, newSale, address, userLiveSale),
\* the await it is suspended at, and what it has done: its write rejected,
\* and the modal and the dialog closed when it finished.
NoHandler ==
    [stage |-> "none", type |-> "null", flow |-> 0, eventType |-> "",
     description |-> "", address |-> "", id |-> Undefined, target |-> 0,
     rejected |-> FALSE, closed |-> FALSE]

\* const maxRetries = 2
maxRetries == 2

\* The calls of fetchLocation: the first by the effect that runs when the
\* page mounts, the later ones by the button 'Allow Location Access'.
FetchCalls == 1 .. MaxFetchCalls

\* locationError: null, the message for a missing navigator.geolocation, or
\* the message onError builds for an error code (one message per code).
NoError == "null"
Unsupported == "Geolocation is not supported by your browser"
PERMISSION_DENIED == "PERMISSION_DENIED"
\* The codes of a GeolocationPositionError (the switch's default case is for
\* no code of the API, and does what the TIMEOUT case does).
GeoErrorCodes == {PERMISSION_DENIED, "POSITION_UNAVAILABLE", "TIMEOUT"}

\* Who calls onSuccess and onError of a call of fetchLocation: its first
\* getCurrentPosition, a getCurrentPosition of retryWithFallback, its watch.
Sources == {"initial", "retry", "watch"}

\* ------------------------------------- NotificationService (Home.test.jsx)
\* The accounts that sign in on the browser, and the values getToken returns
\* on it.
Users == {"u1", "u2"}
DeviceTokens == {"t1", "t2"}
NoUser == "null"

\* A path of the collection group 'tokens': users/{uid}/tokens/{token}.
Paths == Users \X DeviceTokens

\* users/{uid}: the fields getUserSearchRadius and getUserLocation read.  The
\* first user has stored both, the second neither.
UserProfile(u) ==
    IF u = "u1"
    THEN [searchRadius |-> 25, location |-> At(Origin)]
    ELSE [searchRadius |-> Undefined, location |-> NoLocation]

NoRegistration ==
    [exists |-> FALSE, token |-> "", createdAt |-> 0, searchRadius |-> Undefined,
     location |-> NoLocation]

SaveCalls == 1 .. MaxSaves
RemoveCalls == 1 .. MaxRemoves

\* A call of saveTokenToDatabase that has not been made.  A call in progress
\* holds the reference it built (uid, token), the fields gathered so far, the
\* account getUserLocation reads, and the await it is suspended at.
NoSave ==
    [stage |-> "none", uid |-> NoUser, token |-> "", searchRadius |-> Undefined,
     location |-> NoLocation, locationOf |-> NoUser]

\* A call of removeToken that has not been made.
NoRemove == [stage |-> "none", uid |-> NoUser, token |-> "", deleted |-> FALSE]

\* The browser before anyone has signed in, and an empty collection group.
InitNotificationService ==
    /\ authUser = NoUser
    /\ registry = [p \in Paths |-> NoRegistration]
    /\ saves = [s \in SaveCalls |-> NoSave]
    /\ removes = [r \in RemoveCalls |-> NoRemove]
\* ------------------------------------------------------ MySales.jsx
\* The ids of the user's documents in 'sales', and the tabs.
SaleDocIds == 1 .. MaxSaleDocs
Tabs == 1 .. MaxTabs

\* useState of MySales: loading, the status of each sale of `sales` (absent:
\* not in the array), the id of userLiveSale (0: null), modalState and
\* isCreateModalOpen.
NoPage ==
    [loading |-> TRUE, sales |-> [d \in SaleDocIds |-> "absent"],
     userLiveSale |-> 0, modalState |-> [isOpen |-> FALSE, saleId |-> 0],
     isCreateModalOpen |-> FALSE]

\* No handler: a handler holds its name, the await it is suspended at, the
\* document it writes to, the sale the dialog was opened for when it was
\* confirmed, and whether its write has been applied.
NoTask ==
    [name |-> "none", stage |-> "done", saleId |-> 0, opened |-> 0,
     newStatus |-> "", written |-> FALSE]

\* The tabs before MySales mounts in them; the user has one sale, a draft.
InitMySales ==
    /\ salesDocs = << "draft" >>
    /\ pages = [p \in Tabs |-> NoPage]
    /\ tasks = [p \in Tabs |-> NoTask]
\* ----------------------------------------------------------- firestore.rules
\* The accounts that send requests: two users and an administrator.
Accounts == Users \cup {"a1"}

\* The data of a document of 'users': isAdmin ("absent": no such field) and
\* one more field, which stands for the rest of the document.
IsAdminValues == {"absent", "true", "false"}
UserData == [isAdmin : IsAdminValues, email : {"x", "y"}]

NoUserDoc == [exists |-> FALSE, isAdmin |-> "absent", email |-> ""]
UserDoc(data) == [exists |-> TRUE, isAdmin |-> data.isAdmin, email |-> data.email]

\* The collection when the model starts: the administrator's document, the
\* document signup wrote for the first user (isAdmin: false), and no
\* document for the second.
InitUsers ==
    userDocs = [u \in Accounts |->
                   CASE u = "a1" -> UserDoc([isAdmin |-> "true", email |-> "x"])
                     [] u = "u1" -> UserDoc([isAdmin |-> "false", email |-> "x"])
                     [] OTHER -> NoUserDoc]
\* ------------------------------------------ the address field, AuthProvider
\* No click on 'Save' is awaiting the geocoder.  A click holds the address
\* and the coordinates of the render it was made in.
NoSaveClick == [pending |-> FALSE, address |-> "", coordinates |-> NoLocation]

\* The provider as it mounts, nobody being signed in: the observer is
\* registered and will be called back with null.
InitAuthProvider ==
    /\ currentUser = NoUser
    /\ isAdmin = FALSE
    /\ authLoading = TRUE
    /\ authEvents = << NoUser >>
    /\ lookups = << >>
    /\ logins = 0

InitAddressField ==
    /\ isEditingAddress = FALSE
    /\ addressError = ""
    /\ addressSave = NoSaveClick
\* A specification of one component leaves the collections and pages that
\* the component never reads empty: no token records and no calls of the
\* NotificationService, no MySales tabs, no documents of 'users'.
NoNotificationService ==
    /\ authUser = NoUser
    /\ registry = << >>
    /\ saves = << >>
    /\ removes = << >>

NoMySales ==
    /\ salesDocs = << >>
    /\ pages = << >>
    /\ tasks = << >>

NoUsers == userDocs = << >>

\* The Home page as it mounts: no coordinates yet, the default radius, an
\* empty list, no subscription, the location loading, no effect run yet.
InitHomePage ==
    /\ InitAuthProvider
    /\ InitAddressField
    /\ error = NoMessage
    /\ userLiveSale = NoSale
    /\ fetched = FALSE
    /\ isModalOpen = FALSE
    /\ isConfirmationOpen = FALSE
    /\ confirmationType = "null"
    /\ newSale = [eventType |-> "", description |-> ""]
    /\ address = ""
    /\ isSubmitting = FALSE
    /\ updates = << >>
    /\ handlers = [h \in Confirmations |-> NoHandler]
    /\ flow = 0
    /\ locationLoading = TRUE
    /\ locationError = NoError
    /\ calls = 0
    /\ retryCount = [k \in FetchCalls |-> 0]
    /\ issued = [k \in FetchCalls |-> 0]
    /\ requests = [k \in FetchCalls |-> [initial |-> FALSE, retries |-> 0]]
    /\ watch = [k \in FetchCalls |-> "none"]
    /\ tornDown = FALSE
    /\ coordinates = NoLocation
    /\ radius = 10
    /\ listener = [active |-> FALSE, coordinates |-> NoLocation, radius |-> 10,
                   dirty |-> FALSE]
    /\ loading = TRUE
    /\ sales = << >>
    /\ pending = {}
    /\ pub = [snap |-> {}, coordinates |-> NoLocation, radius |-> 10,
              array |-> << >>]

\* The Home page alone, as the specifications of the dispatcher, the feed, the
\* tracker and the flows start it.
InitHome ==
    /\ InitHomePage
    /\ NoNotificationService
    /\ NoMySales
    /\ NoUsers

\* ----------------------------------------------------------- the dispatcher

\* Documents are created one at a time, between two runs: a creation does not
\* interact with a run in progress.
Quiescent == runState = "idle" /\ pendingEvents = {}

\* An external writer creates saleEvents/{eventId}.
CreateSaleEvent(loc) ==
    /\ Quiescent
    /\ CountIn(TriggerCollection) < MaxEvents
    /\ WriteDoc(TriggerCollection, loc)
    /\ UNCHANGED << tokens, runCount, runState, runEvent, runResult, snap, unit,
                    delList, sends, sendFailed, deletes, invalidated >>
    /\ UNCHANGED varsOffDispatch

\* The client publishes a sale: addDoc(collection(db, 'sales'), sale), with the
\* coordinates the geocoder returned for the address.
PublishSale ==
    /\ Quiescent
    /\ CountIn(SalesCollection) < MaxPublished
    /\ WriteDoc(SalesCollection, At(SaleLat))
    /\ UNCHANGED << tokens, runCount, runState, runEvent, runResult, snap, unit,
                    delList, sends, sendFailed, deletes, invalidated >>
    /\ UNCHANGED varsOffDispatch

\* Promise.all(notificationPromises) as seen by the run: it rejects as soon as
\* one unit has rejected, and resolves once every unit has resolved.  A run
\* that has settled stays settled.
PromiseAll(old, u) ==
    IF old # "pending" THEN old
    ELSE IF \E d \in RegIds : Rejected(u[d]) THEN "error"
    ELSE IF \A d \in RegIds : Settled(u[d]) THEN "ok"
    ELSE "pending"

\* The runs of the model follow one another: the next event is delivered once
\* every unit of the previous run has settled.
NextRunState(u) == IF \A d \in RegIds : Settled(u[d]) THEN "idle" ELSE "fanout"

ErrorCodes == {"messaging/registration-token-not-registered",
               "messaging/internal-error"}

\* The test that takes every error code for the endpoint-invalid one.
TokenIsInvalid_any(code) == TRUE
\* error.code === 'messaging/registration-token-not-registered'
TokenIsInvalid(code) == code = "messaging/registration-token-not-registered"

\* onCreate is delivered: the handler builds saleEvent and issues
\* db.collectionGroup('tokens').get().
StartRun(e) ==
    /\ runState = "idle"
    /\ e \in pendingEvents
    /\ pendingEvents' = pendingEvents \ {e}
    /\ runEvent' = e
    /\ runCount' = [runCount EXCEPT ![e] = @ + 1]
    /\ runResult' = [runResult EXCEPT ![e] = "pending"]
    /\ runState' = "query"
    /\ snap' = {}
    /\ unit' = [d \in RegIds |-> "none"]
    /\ delList' = [d \in RegIds |-> << >>]
    /\ sends' = {}
    /\ sendFailed' = {}
    /\ deletes' = {}
    /\ invalidated' = invalidated \cup
            {f.token : f \in {x \in sendFailed : TokenIsInvalid(x.code)}}
    /\ UNCHANGED << tokens, docs >>
    /\ UNCHANGED varsOffDispatch

\* The comparison with < in place of <=.
WithinSearchRadius_exclusive(distance, searchRadius) ==
    LessEq(distance, searchRadius) /\ distance # searchRadius

\* distance <= tokenData.searchRadius
WithinSearchRadius(distance, searchRadius) == LessEq(distance, searchRadius)

\* if (!tokenData.location || !tokenData.searchRadius) return;
LacksLocationOrRadius(tokenData) ==
    ~tokenData.location.defined \/ ~Truthy(tokenData.searchRadius)

\* The synchronous part of the callback given to tokenDocs.docs.map, up to its
\* first await: the state its unit is left in.  Reading
\* saleEvent.location.latitude of a saleEvent without location throws.
EvaluateUnit(tokenData, saleEvent) ==
    IF LacksLocationOrRadius(tokenData) THEN "skipped"
    ELSE IF ~saleEvent.location.defined THEN "threw"
    ELSE IF WithinSearchRadius(
                calculateDistanceFn(tokenData.location.latitude,
                                    tokenData.location.longitude,
                                    saleEvent.location.latitude,
                                    saleEvent.location.longitude),
                tokenData.searchRadius)
         THEN "send"
         ELSE "far"

\* The query of all tokens fails: the handler's promise rejects.
QueryTokensFails ==
    /\ runState = "query"
    /\ runResult' = [runResult EXCEPT ![runEvent] = "error"]
    /\ runState' = "idle"
    /\ UNCHANGED << tokens, docs, pendingEvents, runCount, runEvent, snap, unit,
                    delList, sends, sendFailed, deletes, invalidated >>
    /\ UNCHANGED varsOffDispatch

\* The query of all tokens returns: map starts every unit, each running to
\* its first await (messaging.send is called there), then Promise.all.
QueryTokens ==
    /\ runState = "query"
    /\ LET u == [d \in RegIds |->
                    IF d \in tokens
                    THEN EvaluateUnit(Reg(d), docs[runEvent])
                    ELSE "none"]
       IN /\ snap' = tokens
          /\ unit' = u
          /\ sends' = sends \cup
                {[doc |-> d, token |-> Reg(d).token] :
                    d \in {x \in tokens : u[x] = "send"}}
          /\ runResult' = [runResult EXCEPT ![runEvent] = PromiseAll(@, u)]
          /\ runState' = NextRunState(u)
    /\ UNCHANGED << tokens, docs, pendingEvents, runCount, runEvent, delList,
                    sendFailed, deletes, invalidated >>
    /\ UNCHANGED varsOffDispatch

\* A unit moves to state st: its promise, Promise.all and the run follow.
UnitStep(d, st) ==
    LET u == [unit EXCEPT ![d] = st] IN
    /\ unit' = u
    /\ runResult' = [runResult EXCEPT ![runEvent] = PromiseAll(@, u)]
    /\ runState' = NextRunState(u)

\* messaging.send resolves.
SendSucceeds(d) ==
    /\ unit[d] = "send"
    /\ UnitStep(d, "done")
    /\ UNCHANGED << tokens, docs, pendingEvents, runCount, runEvent, snap,
                    delList, sends, sendFailed, deletes, invalidated >>
    /\ UNCHANGED varsOffDispatch

\* messaging.send rejects with error.code = code: the catch block logs, and
\* for an unregistered token issues the query of the token's documents.
SendFails(d, code) ==
    /\ unit[d] = "send"
    /\ sendFailed' = sendFailed \cup
            {[doc |-> d, token |-> Reg(d).token, code |-> code]}
    /\ UnitStep(d, IF TokenIsInvalid(code) THEN "pruneQuery" ELSE "done")
    /\ UNCHANGED << tokens, docs, pendingEvents, runCount, runEvent, snap,
                    delList, sends, deletes, invalidated >>
    /\ UNCHANGED varsOffDispatch

\* db.collectionGroup('tokens').where('token', '==', token).get()
TokenDocs(token) == {x \in tokens : Reg(x).token = token}

\* The prune's query returns the documents holding the token, under every
\* owner; the loop then awaits the first delete.
PruneQuery(d) ==
    /\ unit[d] = "pruneQuery"
    /\ LET found == InOrder(TokenDocs(Reg(d).token)) IN
       /\ delList' = [delList EXCEPT ![d] = found]
       /\ UnitStep(d, IF found = << >> THEN "done" ELSE "pruneDelete")
    /\ UNCHANGED << tokens, docs, pendingEvents, runCount, runEvent, snap,
                    sends, sendFailed, deletes, invalidated >>
    /\ UNCHANGED varsOffDispatch

\* The prune's query rejects: nothing catches it, and the unit rejects.
PruneQueryFails(d) ==
    /\ unit[d] = "pruneQuery"
    /\ UnitStep(d, "rejected")
    /\ UNCHANGED << tokens, docs, pendingEvents, runCount, runEvent, snap,
                    delList, sends, sendFailed, deletes, invalidated >>
    /\ UNCHANGED varsOffDispatch

\* await doc.ref.delete() resolves (deleting a document that is already gone
\* succeeds), and the loop goes on to the next document.
PruneDelete(d) ==
    /\ unit[d] = "pruneDelete"
    /\ LET x == Head(delList[d]) IN
       /\ tokens' = tokens \ {x}
       /\ deletes' = deletes \cup {x}
       /\ delList' = [delList EXCEPT ![d] = Tail(@)]
       /\ UnitStep(d, IF Tail(delList[d]) = << >> THEN "done" ELSE "pruneDelete")
    /\ UNCHANGED << docs, pendingEvents, runCount, runEvent, snap, sends,
                    sendFailed, invalidated >>
    /\ UNCHANGED varsOffDispatch

\* await doc.ref.delete() rejects: the unit rejects, the loop ends.
PruneDeleteFails(d) ==
    /\ unit[d] = "pruneDelete"
    /\ delList' = [delList EXCEPT ![d] = << >>]
    /\ UnitStep(d, "rejected")
    /\ UNCHANGED << tokens, docs, pendingEvents, runCount, runEvent, snap,
                    sends, sendFailed, deletes, invalidated >>
    /\ UNCHANGED varsOffDispatch

\* The dispatcher's specification: no Home page is open.
\* No comparison of the distance functions is under way.
NoComparison ==
    [from |-> 0, sale |-> 0, radius |-> 0, done |-> FALSE,
     dispatcherDistance |-> 0, feedDistance |-> 0,
     notify |-> FALSE, include |-> FALSE]

InitDispatch ==
    /\ InitD
    /\ InitHome
    /\ live = {}
    /\ geolocation = TRUE
    /\ comparison = NoComparison
    /\ added = << >>

NextDispatch ==
    \/ \E loc \in EventLocations : CreateSaleEvent(loc)
    \/ PublishSale
    \/ \E e \in DocIds : StartRun(e)
    \/ QueryTokensFails
    \/ QueryTokens
    \/ \E d \in RegIds : SendSucceeds(d)
    \/ \E d \in RegIds : \E code \in ErrorCodes : SendFails(d, code)
    \/ \E d \in RegIds : PruneQuery(d)
    \/ \E d \in RegIds : PruneQueryFails(d)
    \/ \E d \in RegIds : PruneDelete(d)
    \/ \E d \in RegIds : PruneDeleteFails(d)

vars == << varsD, varsF, varsL, varsS, varsC, varsR, varsM, varsP, varsE, varsA >>

SpecDispatch == InitDispatch /\ [][NextDispatch]_vars

\* ------------------------------------------------- claims on the dispatcher

\* The listing of the current run has coordinates.
HasCoordinates(saleEvent) ==
    /\ saleEvent.location.defined
    /\ saleEvent.location.latitude # Undefined
    /\ saleEvent.location.longitude # Undefined

\* The run has gone past its query of the registrations.
PastQuery == runEvent # 0 /\ runState # "query"

\* The distance test of the dispatcher, for registration d and the listing of
\* the current run: a location, a search radius, and distance <= radius.
PassesDistanceTest(d) ==
    /\ Reg(d).location.defined
    /\ Reg(d).searchRadius # Undefined
    /\ LET distance == calculateDistanceFn(Reg(d).location.latitude,
                                           Reg(d).location.longitude,
                                           docs[runEvent].location.latitude,
                                           docs[runEvent].location.longitude)
       IN distance # NaN /\ distance <= Reg(d).searchRadius

SendAttempted(d) == \E s \in sends : s.doc = d

\* C1: in a run for a listing with coordinates, a send is attempted to a
\* registration of the store iff it has a location and a search radius and
\* its distance to the listing is at most its radius (a distance equal to the
\* radius included); a registration lacking either is never sent to.
C1_SendIffWithinRadius ==
    (PastQuery /\ HasCoordinates(docs[runEvent])) =>
        \A d \in RegIds :
            SendAttempted(d) <=> (d \in snap /\ PassesDistanceTest(d))

\* C1's case: the registration at a distance equal to its radius was sent to,
\* while registrations without location and without radius were enumerated
\* and skipped, and one beyond its radius was not sent to.
C1_Witness ==
    /\ PastQuery
    /\ HasCoordinates(docs[runEvent])
    /\ \E d \in snap : /\ SendAttempted(d)
                       /\ calculateDistanceFn(Reg(d).location.latitude, Meridian,
                                              SaleLat, Meridian)
                          = Reg(d).searchRadius
    /\ \E d \in snap : ~Reg(d).location.defined /\ ~SendAttempted(d)
    /\ \E d \in snap : Reg(d).location.defined /\ ~SendAttempted(d)

\* C2: when messaging.send fails for a registration, with any error code,
\* every other registration that passes the distance test has its send
\* attempted in the same run, and the run completes without error.
C2_SendFailureIsolated ==
    \A f \in sendFailed :
        /\ \A d \in snap \ {f.doc} : PassesDistanceTest(d) => SendAttempted(d)
        /\ runResult[runEvent] # "error"

UnitsLaunched == \E d \in RegIds : unit[d] # "none"

\* C3: the run finishes only after every evaluate+notify unit has finished,
\* and an exception inside a unit (a failing store query or delete of the
\* prune included) neither ends the run before the sibling units nor makes
\* the run fail.
C3_RunAwaitsEveryUnit ==
    (runEvent # 0 /\ UnitsLaunched) =>
        /\ runResult[runEvent] # "pending" => \A d \in RegIds : Settled(unit[d])
        /\ runResult[runEvent] # "error"

\* C4: when a delivery to token t fails with the endpoint-invalid code, then
\* once the run has completed no registration with token t remains under any
\* owner, and a following dispatch attempts no send to t.
C4_InvalidTokenPruned ==
    /\ \A f \in sendFailed :
            (TokenIsInvalid(f.code) /\ runResult[runEvent] # "pending")
                => TokenDocs(f.token) = {}
    /\ \A s \in sends : s.token \notin invalidated

\* The query of all registrations failed: the run ended before any unit.
FirstQueryFailed == runResult[runEvent] = "error" /\ ~UnitsLaunched

\* C5: for a listing without coordinates the dispatcher sends nothing,
\* deletes no registration, and the run completes successfully, whatever
\* registrations the store holds (the store answering its queries).
C5_NoCoordinatesNoWork ==
    (PastQuery /\ ~HasCoordinates(docs[runEvent]) /\ ~FirstQueryFailed) =>
        /\ sends = {}
        /\ deletes = {}
        /\ runResult[runEvent] # "error"

\* C6: every sale the client publishes triggers exactly one dispatcher run:
\* its creation event is pending, or one run has been started for it.
C6_PublishedSaleTriggersOneRun ==
    \A i \in 1 .. Len(docs) :
        docs[i].coll = SalesCollection =>
            (i \in pendingEvents \/ runCount[i] = 1)

\* The code by which messaging.send reports an endpoint as no longer valid.
EndpointInvalid == "messaging/registration-token-not-registered"

\* C23: a registration is deleted in a run only if a delivery to its token
\* failed in that run with the endpoint-invalid code; when a delivery fails
\* with any other code, the store is left as it is, no send is made, and the
\* unit of the registration ends there (no prune, no second send).
C23_PruneOnlyOnInvalidEndpoint ==
    /\ [](\A x \in deletes :
            \E f \in sendFailed :
                f.code = EndpointInvalid /\ f.token = Reg(x).token)
    /\ [][\A d \in RegIds : \A code \in ErrorCodes \ {EndpointInvalid} :
              SendFails(d, code) =>
                  /\ tokens' = tokens
                  /\ sends' = sends
                  /\ unit'[d] = "done"]_vars

\* C23's case: in one run a delivery failed with another code, its unit ended
\* and its registration is still in the store, while the registration of a
\* token reported invalid was deleted.
C23_Witness ==
    /\ \E f \in sendFailed :
            /\ f.code # EndpointInvalid
            /\ unit[f.doc] = "done"
            /\ f.doc \in tokens
    /\ \E g \in sendFailed : g.code = EndpointInvalid /\ g.doc \in deletes

\* C27: in the run for one creation event, no token value is the target of
\* two sends, also when it is registered under more than one owner.
C27_OneNotificationPerToken ==
    \A s1 \in sends : \A s2 \in sends : s1.token = s2.token => s1.doc = s2.doc
\* -------------------------------------------------------- the Home page

\* The dispatcher is not part of the Home page's specification.
DispatcherIdle ==
    /\ tokens = {}
    /\ docs = << >>
    /\ pendingEvents = {}
    /\ runCount = [i \in DocIds |-> 0]
    /\ runState = "idle"
    /\ runEvent = 0
    /\ runResult = [i \in DocIds |-> "none"]
    /\ snap = {}
    /\ unit = [d \in RegIds |-> "none"]
    /\ delList = [d \in RegIds |-> << >>]
    /\ sends = {}
    /\ sendFailed = {}
    /\ deletes = {}
    /\ invalidated = {}

InitFeed ==
    /\ DispatcherIdle
    /\ InitHome
    /\ live \in {S \in SUBSET SaleIds : Cardinality(S) <= MaxListings}
    /\ geolocation = TRUE
    /\ comparison = NoComparison
    /\ added = << >>

\* The sales listener effect, run by React once coordinates c and radius r
\* are committed and one of them has changed: the cleanup of the previous run
\* unsubscribes, then `if (!coordinates) return`, setLoading(true), and
\* onSnapshot subscribes with c and r in the closure of its callback.
SalesListenerEffect(c, r) ==
    IF c.defined
    THEN /\ listener' = [active |-> TRUE, coordinates |-> c, radius |-> r,
                         dirty |-> TRUE]
         /\ loading' = TRUE
         /\ error' = NoMessage
    ELSE /\ listener' = [active |-> FALSE, coordinates |-> c, radius |-> r,
                         dirty |-> FALSE]
         /\ loading' = loading
         /\ error' = error

\* The updater with >= in place of >.
SignificantChange_inclusive(prev, lat, lon) ==
    \/ ~prev.defined
    \/ LET distance == calculateDistance(prev.latitude, prev.longitude, lat, lon)
       IN distance # NaN /\ distance >= Tenth

\* The updater given to setCoordinates: the new position replaces prev if it
\* is the first one or more than 0.1 mile away.
SignificantChange(prev, lat, lon) ==
    \/ ~prev.defined
    \/ LET distance == calculateDistance(prev.latitude, prev.longitude, lat, lon)
       IN distance # NaN /\ distance > Tenth

\* onSuccess(position) of fetchLocation, for a position on the meridian.  The
\* sales listener effect runs for new coordinates while the page is mounted.
onSuccess(lat) ==
    LET next == IF SignificantChange(coordinates, lat, Meridian)
                THEN At(lat)
                ELSE coordinates
    IN /\ coordinates' = next
       /\ IF next # coordinates /\ ~tornDown
          THEN SalesListenerEffect(next, radius)
          ELSE UNCHANGED << listener, loading, error >>
       /\ locationLoading' = FALSE
       /\ locationError' = NoError
       /\ UNCHANGED << live, radius, sales, pending, pub >>
       /\ UNCHANGED << retryCount, issued >>
       /\ UNCHANGED varsOffTracker

\* The device reports a position to the page: onSuccess is called.  (Which
\* request or watch reports it is the subject of the location tracker below.)
PositionReported(lat) ==
    /\ onSuccess(lat)
    /\ UNCHANGED << geolocation, calls, requests, watch, tornDown >>

\* onChange of the distance select: setRadius(Number(e.target.value)).
setRadius(r) ==
    /\ r # radius
    /\ radius' = r
    /\ SalesListenerEffect(coordinates, r)
    /\ UNCHANGED << live, coordinates, sales, pending, pub >>
    /\ UNCHANGED varsOffFeed

\* The query where('status', '==', 'live') has a new result for the listener.
QueryResultChanged == [listener EXCEPT !.dirty = listener.active]

\* A sale is published with status 'live'.
SaleGoesLive(l) ==
    /\ l \notin live
    /\ Cardinality(live) < MaxListings
    /\ live' = live \cup {l}
    /\ listener' = QueryResultChanged
    /\ UNCHANGED << coordinates, radius, loading, sales, pending, pub, error >>
    /\ UNCHANGED varsOffFeed

\* A live sale is ended.
SaleEnds(l) ==
    /\ l \in live
    /\ live' = live \ {l}
    /\ listener' = QueryResultChanged
    /\ UNCHANGED << coordinates, radius, loading, sales, pending, pub, error >>
    /\ UNCHANGED varsOffFeed

\* if (!saleLocation.latitude || !saleLocation.longitude) return, with
\* saleLocation = sale.location || {}
MissingLocation(sale) ==
    ~Truthy(sale.location.latitude) \/ ~Truthy(sale.location.longitude)

\* The comparison with < in place of <=.
WithinRadius_exclusive(distance, r) ==
    LessEq(distance, Miles(r)) /\ distance # Miles(r)

\* distance <= radius
WithinRadius(distance, r) == LessEq(distance, Miles(r))

\* The distance of sale l from the coordinates c of the callback's closure.
DistanceFrom(c, l) ==
    calculateDistance(c.latitude, c.longitude,
                      Sale(l).location.latitude, Sale(l).location.longitude)

\* The sale passes the callback's location check and radius filter.
Retained(c, r, l) ==
    ~MissingLocation(Sale(l)) /\ WithinRadius(DistanceFrom(c, l), r)

\* The object pushed to updatedSales.
Item(c, l, addr) ==
    [id |-> l, distance |-> RoundToTenth(DistanceFrom(c, l)), address |-> addr]

\* s with x placed behind every element that does not compare greater.
InsertByDistance(s, x) ==
    LET n == Cardinality({i \in 1 .. Len(s) : s[i].distance <= x.distance})
    IN SubSeq(s, 1, n) \o << x >> \o SubSeq(s, n + 1, Len(s))

\* updatedSales.sort((a, b) => a.distance - b.distance): a stable sort.
RECURSIVE SortByDistance(_)
SortByDistance(s) ==
    IF s = << >> THEN << >>
    ELSE InsertByDistance(SortByDistance(SubSeq(s, 1, Len(s) - 1)), s[Len(s)])

\* The elements of sequence s that are in set S, in the order of s.
RECURSIVE Restrict(_, _)
Restrict(s, S) ==
    IF s = << >> THEN << >>
    ELSE (IF Head(s) \in S THEN << Head(s) >> ELSE << >>) \o Restrict(Tail(s), S)

\* The callback of onSnapshot.  snapshot.forEach starts one async function
\* per document: for a sale with a stored address `sale.address || await ...`
\* awaits nothing and the push happens at once; for a sale without one the
\* function is suspended at the await and pushes when the lookup returns.
\* The callback then sorts what has been pushed, publishes it with setSales
\* and ends the loading state.  Lookups of an earlier callback push to an
\* array React no longer holds.
onSnapshotCallback ==
    /\ listener.active
    /\ listener.dirty
    /\ LET c == listener.coordinates
           r == listener.radius
           kept == {l \in live : Retained(c, r, l)}
           now == Restrict(InOrder(live), {l \in kept : Sale(l).address})
           updatedSales ==
               SortByDistance([i \in 1 .. Len(now) |-> Item(c, now[i], TRUE)])
       IN /\ sales' = updatedSales
          /\ pending' = {[id |-> l, coordinates |-> c] :
                            l \in {x \in kept : ~Sale(x).address}}
          /\ pub' = [snap |-> live, coordinates |-> c, radius |-> r,
                     array |-> updatedSales]
    /\ loading' = FALSE
    /\ listener' = [listener EXCEPT !.dirty = FALSE]
    /\ UNCHANGED << live, coordinates, radius, error >>
    /\ UNCHANGED varsOffFeed

\* getAddressFromCoordinates returns for sale l (an address, or null): the
\* suspended function pushes its object to the array of its callback.
AddressLookupReturns(l, found) ==
    /\ \E p \in pending : p.id = l
    /\ LET p == CHOOSE x \in pending : x.id = l IN
       /\ sales' = Append(sales, Item(p.coordinates, p.id, found))
       /\ pending' = pending \ {p}
    /\ UNCHANGED << live, coordinates, radius, listener, loading, pub, error >>
    /\ UNCHANGED varsOffFeed

NextFeed ==
    \/ \E lat \in Positions : PositionReported(lat)
    \/ \E r \in RadiusChoices : setRadius(r)
    \/ \E l \in SaleIds : SaleGoesLive(l)
    \/ \E l \in SaleIds : SaleEnds(l)
    \/ onSnapshotCallback
    \/ \E l \in SaleIds : \E found \in BOOLEAN : AddressLookupReturns(l, found)

SpecFeed == InitFeed /\ [][NextFeed]_vars

\* ---------------------------------------------------- claims on the feed

Ids(s) == {s[i].id : i \in 1 .. Len(s)}

\* A sale's distance from the origin of the last publication is at most the
\* radius of that publication.
InPublishedRadius(l) ==
    LET distance == DistanceFrom(pub.coordinates, l)
    IN distance # NaN /\ distance <= Miles(pub.radius)

\* The sale has valid coordinates: a latitude and a longitude the callback
\* accepts.
ValidCoordinates(l) ==
    /\ Sale(l).location.defined
    /\ Truthy(Sale(l).location.latitude)
    /\ Truthy(Sale(l).location.longitude)

\* C7: in every state the feed's collection `sales` is ordered by
\* non-decreasing distance, also once the address lookups of the listings
\* without a stored address have returned.
C7_SalesSortedByDistance ==
    \A i, j \in 1 .. Len(sales) : i < j => sales[i].distance <= sales[j].distance

\* C8: the collection published for an emission contains every live listing
\* of the snapshot that has valid coordinates and lies within the radius,
\* also a listing without stored address whose address is being resolved.
C8_PublishedHoldsEveryListingInRadius ==
    \A l \in pub.snap :
        (ValidCoordinates(l) /\ InPublishedRadius(l)) => l \in Ids(pub.array)

\* C9: the collection handed to the consumer is not modified after its
\* publication: the view holds what the last setSales published.
C9_ViewIsLastPublication == sales = pub.array

\* C10: every listing in the collection has coordinates and a distance from
\* the tracked location of its computation that is at most the radius of
\* that computation; of the snapshot's listings with coordinates, those at a
\* distance up to and equal to the radius are retained (pushed, or to be
\* pushed when their address lookup returns) and those farther away are not.
C10_CollectionWithinRadius ==
    /\ \A i \in 1 .. Len(sales) :
            /\ ValidCoordinates(sales[i].id)
            /\ InPublishedRadius(sales[i].id)
            /\ sales[i].distance <= Miles(pub.radius)
    /\ \A l \in pub.snap :
            ValidCoordinates(l) =>
                ((l \in Ids(sales) \/ \E p \in pending : p.id = l)
                    <=> InPublishedRadius(l))

\* C10's case: after every lookup has returned, the collection holds a
\* listing at a distance equal to the radius and one whose address was looked
\* up, and the snapshot held a listing beyond the radius, which is left out.
C10_Witness ==
    /\ pending = {}
    /\ \E i \in 1 .. Len(sales) :
            DistanceFrom(pub.coordinates, sales[i].id) = Miles(pub.radius)
    /\ \E i \in 1 .. Len(sales) : ~Sale(sales[i].id).address
    /\ \E l \in pub.snap :
            /\ ValidCoordinates(l)
            /\ DistanceFrom(pub.coordinates, l) > Miles(pub.radius)
            /\ l \notin Ids(sales)

\* C11: two listings of the feed's collection with equal distance are in the
\* order of their listing ids, so that one set of listings has one order.
C11_TiesOrderedById ==
    \A i, j \in 1 .. Len(sales) :
        (i < j /\ sales[i].distance = sales[j].distance)
            => sales[i].id < sales[j].id

\* The sales listener effect has run for the coordinates and the radius of
\* the next state: a new subscription, whose first snapshot is to come.
Resubscribed ==
    /\ listener' = [active |-> TRUE, coordinates |-> coordinates',
                    radius |-> radius', dirty |-> TRUE]
    /\ loading'

\* The position at latitude lat is at most 0.1 mile from the tracked one.
WithinThreshold(lat) ==
    /\ coordinates.defined
    /\ R_client * Abs(lat - coordinates.latitude) <= Miles(1) \div 10

InitLocation ==
    /\ DispatcherIdle
    /\ InitHome
    /\ live = {}
    /\ geolocation \in BOOLEAN
    /\ comparison = NoComparison
    /\ added = << >>

\* fetchLocation, call k: by the effect when the page mounts (k = 1), or by
\* the button 'Allow Location Access', which is rendered while the location
\* is not loading and there are no coordinates, and whose onClick drops the
\* cleanup fetchLocation returns.
fetchLocation(k) ==
    /\ k = calls + 1
    /\ ~tornDown
    /\ k > 1 => (~locationLoading /\ ~coordinates.defined)
    /\ calls' = k
    /\ IF ~geolocation
       THEN /\ locationError' = Unsupported
            /\ locationLoading' = FALSE
            /\ UNCHANGED << requests, watch >>
       ELSE /\ requests' = [requests EXCEPT ![k] = [initial |-> TRUE, retries |-> 0]]
            /\ watch' = [watch EXCEPT ![k] = "open"]
            /\ UNCHANGED << locationLoading, locationError >>
    /\ UNCHANGED << geolocation, retryCount, issued, tornDown >>
    /\ UNCHANGED varsF
    /\ UNCHANGED varsOffTracker

\* The positions a request or a watch reports in the tracker's specification:
\* the origin and the position 2 miles from it (the 0.1 mile threshold is
\* the subject of the feed's specification).
ReportedPositions == {Origin, Origin + 200}

\* Source src of call k can call back: the request is in flight, the watch open.
CanCallBack(k, src) ==
    /\ k <= calls
    /\ src = "initial" => requests[k].initial
    /\ src = "retry" => requests[k].retries > 0
    /\ src = "watch" => watch[k] = "open"

\* The requests in flight once source src of call k has called back: a
\* getCurrentPosition calls back once, a watch any number of times.
Delivered(k, src) ==
    CASE src = "initial" -> [requests EXCEPT ![k].initial = FALSE]
      [] src = "retry" -> [requests EXCEPT ![k].retries = @ - 1]
      [] src = "watch" -> requests

\* The guard with <= in place of <.
CanRetry_inclusive(n) == n <= maxRetries

\* if (retryCount < maxRetries)
CanRetry(n) == n < maxRetries

\* retryWithFallback without the else branch that ends the loading state.
retryWithFallback_noEnd(k, reqs) ==
    IF CanRetry(retryCount[k])
    THEN /\ retryCount' = [retryCount EXCEPT ![k] = @ + 1]
         /\ issued' = [issued EXCEPT ![k] = @ + 1]
         /\ requests' = [reqs EXCEPT ![k].retries = @ + 1]
         /\ UNCHANGED locationLoading
    ELSE /\ requests' = reqs
         /\ UNCHANGED << locationLoading, retryCount, issued >>

\* retryWithFallback of call k, reqs being the requests in flight.
retryWithFallback(k, reqs) ==
    IF CanRetry(retryCount[k])
    THEN /\ retryCount' = [retryCount EXCEPT ![k] = @ + 1]
         /\ issued' = [issued EXCEPT ![k] = @ + 1]
         /\ requests' = [reqs EXCEPT ![k].retries = @ + 1]
         /\ UNCHANGED locationLoading
    ELSE /\ locationLoading' = FALSE
         /\ requests' = reqs
         /\ UNCHANGED << retryCount, issued >>

\* Every case of the switch calls retryWithFallback.
Retries_always(code) == TRUE

\* switch (error.code): every case but PERMISSION_DENIED calls retryWithFallback.
Retries(code) == code # PERMISSION_DENIED

\* onError(error) of call k: the switch, then setLocationError(errorMessage).
onError(k, code, reqs) ==
    /\ IF Retries(code)
       THEN retryWithFallback(k, reqs)
       ELSE /\ locationLoading' = FALSE
            /\ requests' = reqs
            /\ UNCHANGED << retryCount, issued >>
    /\ locationError' = code

\* Source src of call k reports a position.
SuccessCallback(k, src, lat) ==
    /\ CanCallBack(k, src)
    /\ requests' = Delivered(k, src)
    /\ onSuccess(lat)
    /\ UNCHANGED << geolocation, calls, watch, tornDown >>

\* Source src of call k reports an error.
ErrorCallback(k, src, code) ==
    /\ CanCallBack(k, src)
    /\ onError(k, code, Delivered(k, src))
    /\ UNCHANGED << geolocation, calls, watch, tornDown >>
    /\ UNCHANGED varsF
    /\ UNCHANGED varsOffTracker

\* The page unmounts: the cleanup of the fetchLocation effect clears the
\* watch of the effect's call (if that call returned a cleanup), the cleanup
\* of the sales listener effect unsubscribes.
Unmount ==
    /\ calls >= 1
    /\ ~tornDown
    /\ tornDown' = TRUE
    /\ watch' = [watch EXCEPT ![1] = IF @ = "open" THEN "cleared" ELSE @]
    /\ listener' = [listener EXCEPT !.active = FALSE, !.dirty = FALSE]
    /\ UNCHANGED << live, coordinates, radius, loading, sales, pending, pub,
                    error >>
    /\ UNCHANGED << geolocation, locationLoading, locationError, calls,
                    retryCount, issued, requests >>
    /\ UNCHANGED varsOffTracker

NextLocation ==
    \/ \E k \in FetchCalls : fetchLocation(k)
    \/ \E k \in FetchCalls : \E src \in Sources : \E lat \in ReportedPositions :
            SuccessCallback(k, src, lat)
    \/ \E k \in FetchCalls : \E src \in Sources : \E code \in GeoErrorCodes :
            ErrorCallback(k, src, code)
    \/ Unmount

SpecLocation == InitLocation /\ [][NextLocation]_vars

\* ---------------------------------------- claims on the location tracker

\* C13: for one call of fetchLocation, whichever of the initial request, the
\* watch and the retries report errors, at most maxRetries retry requests are
\* ever issued.
C13_AtMostTwoRetries == \A k \in FetchCalls : issued[k] <= maxRetries

\* C13's case: a call has issued its two retries, every request of it has
\* called back, and a further error has found the retries used up.
C13_Witness ==
    \E k \in FetchCalls :
        /\ issued[k] = maxRetries
        /\ requests[k] = [initial |-> FALSE, retries |-> 0]
        /\ locationError = "TIMEOUT"
        /\ ~locationLoading
        /\ ~coordinates.defined

\* A call of fetchLocation has used up its retries and none is in flight.
RetriesExhausted ==
    \E k \in FetchCalls : retryCount[k] = maxRetries /\ requests[k].retries = 0

\* C14: the location error of an unavailable position or of a timeout is
\* shown only once the retries are used up, and not while a retry is in
\* flight.
C14_ErrorShownOnlyAfterRetries ==
    locationError \in {"POSITION_UNAVAILABLE", "TIMEOUT"} => RetriesExhausted

\* C15: an error callback with PERMISSION_DENIED starts no retry: it leaves
\* the retry counter and the retries in flight as they are (but for the
\* request that called back), makes the denial the location error and ends
\* the loading state.
C15_PermissionDeniedIsTerminal ==
    [][ \A k \in FetchCalls : \A src \in Sources :
            ErrorCallback(k, src, PERMISSION_DENIED) =>
                /\ retryCount' = retryCount
                /\ issued' = issued
                /\ requests' = Delivered(k, src)
                /\ locationError' = PERMISSION_DENIED
                /\ ~locationLoading'
      ]_vars

\* C15's case: the denial is shown, the loading state has ended, and the
\* call still had both retries and got the denial before any other result.
C15_Witness ==
    /\ locationError = PERMISSION_DENIED
    /\ ~locationLoading
    /\ ~coordinates.defined
    /\ calls = 1
    /\ retryCount[1] = 0
    /\ ~requests[1].initial

\* A getCurrentPosition request in flight, the first of a call of
\* fetchLocation or one of its retries, calls back.
RequestCallsBack ==
    \E k \in FetchCalls : \E src \in {"initial", "retry"} :
        \/ \E lat \in ReportedPositions : SuccessCallback(k, src, lat)
        \/ \E code \in GeoErrorCodes : ErrorCallback(k, src, code)

\* The location tracker when the effect runs once the page is mounted and,
\* as long as requests are in flight, one of them calls back.  (The requests
\* of a session are finitely many, so every request calls back in the end;
\* a watch need not call back at all.)
SpecLocationFair ==
    /\ SpecLocation
    /\ WF_vars(fetchLocation(1))
    /\ WF_vars(RequestCallsBack)

\* C16 as stated: in a browser with geolocation the location acquisition
\* ends with locationLoading false for good, with coordinates or with a
\* location error shown after the retries are used up.
C16_EndsWithCoordinatesOrExhausted ==
    geolocation =>
        <>[](/\ ~locationLoading
             /\ \/ coordinates.defined
                \/ locationError # NoError /\ RetriesExhausted)

\* C16, amended: the location acquisition ends with locationLoading false
\* for good, with coordinates or with a location error shown: after the
\* retries are used up, or without any retry for a denied permission and for
\* a browser without geolocation.
C16_Terminates ==
    <>[](/\ ~locationLoading
         /\ \/ coordinates.defined
            \/ locationError # NoError /\ RetriesExhausted
            \/ locationError \in {PERMISSION_DENIED, Unsupported})

\* C16's case: the acquisition has ended without coordinates after the two
\* retries of the first call have failed.
C16_Witness ==
    /\ ~locationLoading
    /\ ~coordinates.defined
    /\ locationError = "POSITION_UNAVAILABLE"
    /\ retryCount[1] = maxRetries
    /\ requests[1] = [initial |-> FALSE, retries |-> 0]

\* C17: once the page is torn down no watch of the session is open, and no
\* step changes the state of the viewer.
C17_TeardownLeavesNothingBehind ==
    [][ /\ tornDown' => \A k \in FetchCalls : watch'[k] # "open"
        /\ tornDown =>
              UNCHANGED << coordinates, locationLoading, locationError,
                           sales, loading >>
      ]_vars

\* ------------------------- the two distance functions, side by side

\* The inputs: a registration (or viewer) location, a listing of the
\* collection and a radius in miles, the same on both sides.
InitDistance ==
    /\ DispatcherIdle
    /\ InitHome
    /\ live = {}
    /\ geolocation = TRUE
    /\ added = << >>
    /\ \E lat \in Positions : \E l \in SaleIds :
       \E r \in {radiusOptions[i] : i \in 1 .. Len(radiusOptions)} :
            comparison = [NoComparison EXCEPT !.from = lat, !.sale = l, !.radius = r]

\* The dispatcher's decision for a registration at latitude lat with
\* searchRadius r and a sale event at the location of listing l.
Notifies(lat, r, l) ==
    EvaluateUnit([location |-> At(lat), searchRadius |-> Miles(r)],
                 [location |-> Sale(l).location]) = "send"

\* Both sides compute their distance and their decision for the inputs.
Compare ==
    /\ ~comparison.done
    /\ LET c == At(comparison.from)
           to == Sale(comparison.sale).location
       IN comparison' =
            [comparison EXCEPT
                !.done = TRUE,
                !.dispatcherDistance =
                    calculateDistanceFn(c.latitude, c.longitude,
                                        to.latitude, to.longitude),
                !.feedDistance = DistanceFrom(c, comparison.sale),
                !.notify = Notifies(comparison.from, comparison.radius,
                                    comparison.sale),
                !.include = Retained(c, comparison.radius, comparison.sale)]
    /\ UNCHANGED << varsD, varsF, varsL, varsS, varsR, varsM, varsP, varsE, varsA >>

NextDistance == Compare

SpecDistance == InitDistance /\ [][NextDistance]_vars

\* C18: for one pair of points the dispatcher and the feed compute the same
\* distance, and for one radius the dispatcher notifies exactly if the feed
\* includes.
C18_SameDistanceSameDecision ==
    comparison.done =>
        /\ comparison.dispatcherDistance = comparison.feedDistance
        /\ comparison.notify = comparison.include

\* ------------------------------ the create and end flows of the Home page

\* What the viewer may enter in the create modal.  getCoordinatesFromAddress
\* and getAddressComponentsFromAddress resolve the first address and return
\* null for the second.
EventTypes == {"", "Garage Sale"}
Descriptions == {"", "Test sale description"}
Addresses == {"", "123 Test St", "nowhere"}
Resolvable(a) == a = "123 Test St"

\* The live sale the signed-in user may have in 'sales' when the page loads.
StoredSale ==
    [flow |-> 0, eventType |-> "Yard Sale", description |-> "stored",
     status |-> "live"]

InitFlow ==
    /\ DispatcherIdle
    /\ InitHome
    /\ live = {}
    /\ geolocation = TRUE
    /\ comparison = NoComparison
    /\ added \in {<< >>, << StoredSale >>}

\* The documents of the user in 'sales' whose status is 'live'.
IsLive(d) ==
    /\ added[d].status = "live"
    /\ \A i \in 1 .. Len(updates) :
            updates[i].doc = d => updates[i].status # "ended"
LiveDocs == {d \in 1 .. Len(added) : IsLive(d)}

\* fetchUserLiveSale, run by the effect on currentUser, once getDocs returns:
\* the first live sale of the user with its document id, or null.
fetchUserLiveSale ==
    /\ ~fetched
    /\ fetched' = TRUE
    /\ userLiveSale' =
          IF LiveDocs # {}
          THEN LET d == CHOOSE x \in LiveDocs : \A y \in LiveDocs : x <= y
               IN [defined |-> TRUE, id |-> d, status |-> "live", doc |-> d]
          ELSE NoSale
    /\ UNCHANGED << isModalOpen, isConfirmationOpen, confirmationType, newSale,
                    address, isSubmitting, added, updates, handlers, flow >>
    /\ UNCHANGED << varsFeed, error >>
    /\ UNCHANGED varsOffFlow

\* handleAddSaleClick, for a signed-in user: the floating button, reachable
\* while neither the create modal nor the confirmation dialog covers it.
handleAddSaleClick ==
    /\ ~isModalOpen
    /\ ~isConfirmationOpen
    /\ flow < MaxFlows
    /\ flow' = flow + 1
    /\ IF userLiveSale.status = "live"
       THEN /\ confirmationType' = "end"
            /\ isConfirmationOpen' = TRUE
            /\ UNCHANGED isModalOpen
       ELSE /\ isModalOpen' = TRUE
            /\ UNCHANGED << confirmationType, isConfirmationOpen >>
    /\ UNCHANGED << userLiveSale, fetched, newSale, address, isSubmitting,
                    added, updates, handlers >>
    /\ UNCHANGED << varsFeed, error >>
    /\ UNCHANGED varsOffFlow

\* The onChange handlers of the create modal's fields.
EditForm(e, d, a) ==
    /\ isModalOpen
    /\ ~isConfirmationOpen
    /\ << e, d, a >> # << newSale.eventType, newSale.description, address >>
    /\ newSale' = [eventType |-> e, description |-> d]
    /\ address' = a
    /\ UNCHANGED << userLiveSale, fetched, isModalOpen, isConfirmationOpen,
                    confirmationType, isSubmitting, added, updates, handlers,
                    flow >>
    /\ UNCHANGED << varsFeed, error >>
    /\ UNCHANGED varsOffFlow

\* The button 'Create Sale' of the modal, disabled while a field is empty or
\* a submission is under way.
CreateSaleClick ==
    /\ isModalOpen
    /\ ~isConfirmationOpen
    /\ ~isSubmitting
    /\ newSale.eventType # "" /\ newSale.description # "" /\ address # ""
    /\ confirmationType' = "start"
    /\ isConfirmationOpen' = TRUE
    /\ UNCHANGED << userLiveSale, fetched, isModalOpen, newSale, address,
                    isSubmitting, added, updates, handlers, flow >>
    /\ UNCHANGED << varsFeed, error >>
    /\ UNCHANGED varsOffFlow

\* The button 'Cancel' of the modal.
CancelModal ==
    /\ isModalOpen
    /\ ~isConfirmationOpen
    /\ isModalOpen' = FALSE
    /\ UNCHANGED << userLiveSale, fetched, isConfirmationOpen, confirmationType,
                    newSale, address, isSubmitting, added, updates, handlers,
                    flow >>
    /\ UNCHANGED << varsFeed, error >>
    /\ UNCHANGED varsOffFlow

\* The button 'Cancel' (and onClose) of the confirmation dialog.
CancelConfirmation ==
    /\ isConfirmationOpen
    /\ isConfirmationOpen' = FALSE
    /\ UNCHANGED << userLiveSale, fetched, isModalOpen, confirmationType,
                    newSale, address, isSubmitting, added, updates, handlers,
                    flow >>
    /\ UNCHANGED << varsFeed, error >>
    /\ UNCHANGED varsOffFlow

\* What the closure of a call of handleConfirmation holds of the render it
\* was made in.
Captured ==
    [NoHandler EXCEPT !.type = confirmationType, !.flow = flow,
                      !.eventType = newSale.eventType,
                      !.description = newSale.description,
                      !.address = address,
                      !.id = userLiveSale.id, !.target = userLiveSale.doc]

\* Call h of handleConfirmation ends, the modal and the dialog being open or
\* not as given: the finally block runs.
Finishes(h, modalOpen, confirmationOpen) ==
    /\ isSubmitting' = FALSE
    /\ confirmationType' = "null"
    /\ handlers' = [handlers EXCEPT
                       ![h] = [(IF @.stage = "none" THEN Captured ELSE @)
                                  EXCEPT !.stage = "done",
                                         !.closed = ~modalOpen /\ ~confirmationOpen]]

\* Call h of handleConfirmation ends after its write was rejected.
FinishesRejected(h) ==
    /\ isSubmitting' = FALSE
    /\ confirmationType' = "null"
    /\ handlers' = [handlers EXCEPT
                       ![h] = [@ EXCEPT !.stage = "done", !.rejected = TRUE,
                                        !.closed = ~isModalOpen /\ ~isConfirmationOpen]]

\* The button of the confirmation dialog: handleConfirmation, up to its first
\* await.  The button is enabled as long as the dialog is open.
handleConfirmation(h) ==
    /\ isConfirmationOpen
    /\ handlers[h].stage = "none"
    /\ \A g \in Confirmations : g < h => handlers[g].stage # "none"
    /\ CASE confirmationType = "start" ->
              IF newSale.eventType = "" \/ newSale.description = "" \/ address = ""
              THEN /\ error' = "Please fill in all required fields"
                   /\ Finishes(h, isModalOpen, isConfirmationOpen)
              ELSE /\ isSubmitting' = TRUE
                   /\ handlers' = [handlers EXCEPT
                                      ![h] = [Captured EXCEPT !.stage = "lookup"]]
                   /\ UNCHANGED << error, confirmationType >>
         [] confirmationType = "end" ->
              IF ~Truthy(userLiveSale.id)
              THEN /\ Finishes(h, isModalOpen, isConfirmationOpen)
                   /\ UNCHANGED error
              ELSE /\ isSubmitting' = TRUE
                   /\ handlers' = [handlers EXCEPT
                                      ![h] = [Captured EXCEPT !.stage = "updateDoc"]]
                   /\ UNCHANGED << error, confirmationType >>
         [] OTHER ->
              /\ Finishes(h, isModalOpen, isConfirmationOpen)
              /\ UNCHANGED error
    /\ UNCHANGED << userLiveSale, fetched, isModalOpen, isConfirmationOpen,
                    newSale, address, added, updates, flow >>
    /\ UNCHANGED varsFeed
    /\ UNCHANGED varsOffFlow

\* Call h resumes after getCoordinatesFromAddress and
\* getAddressComponentsFromAddress: with coordinates, city and state it goes
\* on to addDoc, without them it sets the error and returns.
LookupReturns(h) ==
    /\ handlers[h].stage = "lookup"
    /\ IF Resolvable(handlers[h].address)
       THEN /\ handlers' = [handlers EXCEPT ![h].stage = "addDoc"]
            /\ UNCHANGED << error, isSubmitting, confirmationType >>
       ELSE /\ error' = "Invalid address - Could not get valid coordinates"
            /\ Finishes(h, isModalOpen, isConfirmationOpen)
    /\ UNCHANGED << userLiveSale, fetched, isModalOpen, isConfirmationOpen,
                    newSale, address, added, updates, flow >>
    /\ UNCHANGED varsFeed
    /\ UNCHANGED varsOffFlow

\* Call h resumes after addDoc(collection(db, 'sales'), sale).
addDocReturns(h, ok) ==
    /\ handlers[h].stage = "addDoc"
    /\ IF ok
       THEN /\ added' = Append(added,
                               [flow |-> handlers[h].flow,
                                eventType |-> handlers[h].eventType,
                                description |-> handlers[h].description,
                                status |-> "live"])
            /\ userLiveSale' = [defined |-> TRUE, id |-> Undefined,
                                status |-> "live", doc |-> Len(added) + 1]
            /\ newSale' = [eventType |-> "", description |-> ""]
            /\ address' = ""
            /\ isModalOpen' = FALSE
            /\ isConfirmationOpen' = FALSE
            /\ error' = NoMessage
            /\ Finishes(h, FALSE, FALSE)
       ELSE /\ error' = "addDoc rejected"
            /\ FinishesRejected(h)
            /\ UNCHANGED << added, userLiveSale, newSale, address, isModalOpen,
                            isConfirmationOpen >>
    /\ UNCHANGED << fetched, updates, flow >>
    /\ UNCHANGED varsFeed
    /\ UNCHANGED varsOffFlow

\* Call h resumes after updateDoc(doc(db, 'sales', userLiveSale.id), ...).
updateDocReturns(h, ok) ==
    /\ handlers[h].stage = "updateDoc"
    /\ IF ok
       THEN /\ updates' = Append(updates, [doc |-> handlers[h].id,
                                           status |-> "ended", handler |-> h])
            /\ userLiveSale' = NoSale
            /\ isConfirmationOpen' = FALSE
            /\ isModalOpen' = FALSE
            /\ error' = NoMessage
            /\ Finishes(h, FALSE, FALSE)
       ELSE /\ error' = "updateDoc rejected"
            /\ FinishesRejected(h)
            /\ UNCHANGED << updates, userLiveSale, isModalOpen,
                            isConfirmationOpen >>
    /\ UNCHANGED << fetched, newSale, address, added, flow >>
    /\ UNCHANGED varsFeed
    /\ UNCHANGED varsOffFlow

NextFlow ==
    \/ fetchUserLiveSale
    \/ handleAddSaleClick
    \/ \E e \in EventTypes : \E d \in Descriptions : \E a \in Addresses :
            EditForm(e, d, a)
    \/ CreateSaleClick
    \/ CancelModal
    \/ CancelConfirmation
    \/ \E h \in Confirmations : handleConfirmation(h)
    \/ \E h \in Confirmations : LookupReturns(h)
    \/ \E h \in Confirmations : \E ok \in BOOLEAN : addDocReturns(h, ok)
    \/ \E h \in Confirmations : \E ok \in BOOLEAN : updateDocReturns(h, ok)

SpecFlow == InitFlow /\ [][NextFlow]_vars

\* --------------------------------------- claims on the create and end flows

\* The calls of handleConfirmation of type t made in flow f.
HandlersOf(f, t) ==
    {h \in Confirmations : handlers[h].flow = f /\ handlers[h].type = t}

\* The documents written in flow f.
DocsOf(f) == {d \in 1 .. Len(added) : added[d].flow = f}

\* C19: for every create flow confirmed with an event type, a description
\* and a resolvable address, once its confirmation has been handled (no
\* write having been rejected) exactly one sale document has been written,
\* with status 'live' and what was entered, and the modal and the dialog
\* were closed when the handling ended.
C19_OneSalePerCreateFlow ==
    \A f \in 1 .. MaxFlows :
        LET hs == HandlersOf(f, "start") IN
        (/\ hs # {}
         /\ \A h \in hs :
                /\ handlers[h].stage = "done"
                /\ ~handlers[h].rejected
                /\ handlers[h].eventType # ""
                /\ handlers[h].description # ""
                /\ Resolvable(handlers[h].address))
        => /\ Cardinality(DocsOf(f)) = 1
           /\ \A d \in DocsOf(f) : \E h \in hs :
                /\ added[d].status = "live"
                /\ added[d].eventType = handlers[h].eventType
                /\ added[d].description = handlers[h].description
           /\ \A h \in hs : handlers[h].closed

\* The updates call h has written.
UpdatesBy(h) == {i \in 1 .. Len(updates) : updates[i].handler = h}

\* C20: every confirmation of End Sale made while the user has a live sale,
\* loaded when the page started or created in the session, has, once handled
\* (the write not rejected), written exactly one update, with status 'ended'
\* and to that sale, and the dialog was closed when the handling ended.
C20_EndSaleUpdatesLiveSale ==
    \A h \in Confirmations :
        (/\ handlers[h].type = "end"
         /\ handlers[h].stage = "done"
         /\ ~handlers[h].rejected
         /\ handlers[h].target # 0)
        => /\ Cardinality(UpdatesBy(h)) = 1
           /\ \A i \in UpdatesBy(h) :
                updates[i].doc = handlers[h].target /\ updates[i].status = "ended"
           /\ handlers[h].closed

\* ------------------------------------------------ the NotificationService

InitRegistry ==
    /\ DispatcherIdle
    /\ InitHomePage
    /\ InitNotificationService
    /\ NoMySales
    /\ NoUsers
    /\ live = {}
    /\ geolocation = TRUE
    /\ comparison = NoComparison
    /\ added = << >>

\* An account signs in on the browser, or the signed-in account signs out.
signIn(u) ==
    /\ authUser = NoUser
    /\ authUser' = u
    /\ UNCHANGED << registry, saves, removes >>
    /\ UNCHANGED varsOffRegistry

signOut ==
    /\ authUser # NoUser
    /\ authUser' = NoUser
    /\ UNCHANGED << registry, saves, removes >>
    /\ UNCHANGED varsOffRegistry

\* saveTokenToDatabase(token), call s, up to its first await: without a user
\* it throws; with one it builds doc(db, 'users', user.uid, 'tokens', token)
\* and calls getUserSearchRadius, which issues getDoc for that user.
saveTokenToDatabase(s, token) ==
    /\ saves[s].stage = "none"
    /\ \A g \in SaveCalls : g < s => saves[g].stage # "none"
    /\ saves' = [saves EXCEPT ![s] =
                    IF authUser = NoUser
                    THEN [NoSave EXCEPT !.stage = "threw"]
                    ELSE [NoSave EXCEPT !.stage = "getUserSearchRadius",
                                        !.uid = authUser, !.token = token]]
    /\ UNCHANGED << authUser, registry, removes >>
    /\ UNCHANGED varsOffRegistry

\* userDoc.data()?.searchRadius || 10, and 10 when getDoc rejects.
SearchRadiusOf(u, ok) ==
    IF ok /\ Truthy(UserProfile(u).searchRadius)
    THEN UserProfile(u).searchRadius
    ELSE 10

\* Call s resumes after getUserSearchRadius and calls getUserLocation, which
\* reads auth.currentUser again: null without a user, otherwise getDoc for
\* the account signed in by now.
getUserSearchRadius(s, ok) ==
    /\ saves[s].stage = "getUserSearchRadius"
    /\ saves' = [saves EXCEPT ![s] =
                    [@ EXCEPT !.searchRadius = SearchRadiusOf(saves[s].uid, ok),
                              !.locationOf = authUser,
                              !.stage = IF authUser = NoUser
                                        THEN "setDoc"
                                        ELSE "getUserLocation"]]
    /\ UNCHANGED << authUser, registry, removes >>
    /\ UNCHANGED varsOffRegistry

\* Call s resumes after getUserLocation (null when getDoc rejects) and calls
\* setDoc(tokenRef, {...}).
getUserLocation(s, ok) ==
    /\ saves[s].stage = "getUserLocation"
    /\ saves' = [saves EXCEPT ![s] =
                    [@ EXCEPT !.location = IF ok
                                           THEN UserProfile(saves[s].locationOf).location
                                           ELSE NoLocation,
                              !.stage = "setDoc"]]
    /\ UNCHANGED << authUser, registry, removes >>
    /\ UNCHANGED varsOffRegistry

\* setDoc resolves, the document at the reference being written whole, or
\* rejects, and saveTokenToDatabase rethrows.
setDocReturns(s, ok) ==
    /\ saves[s].stage = "setDoc"
    /\ IF ok
       THEN /\ registry' = [registry EXCEPT
                               ![<< saves[s].uid, saves[s].token >>] =
                                   [exists |-> TRUE, token |-> saves[s].token,
                                    createdAt |-> s,
                                    searchRadius |-> saves[s].searchRadius,
                                    location |-> saves[s].location]]
            /\ saves' = [saves EXCEPT ![s] = [NoSave EXCEPT !.stage = "done"]]
       ELSE /\ saves' = [saves EXCEPT ![s] = [NoSave EXCEPT !.stage = "threw"]]
            /\ UNCHANGED registry
    /\ UNCHANGED << authUser, removes >>
    /\ UNCHANGED varsOffRegistry

\* removeToken(token), call r, up to its await: without a user it returns;
\* with one it calls deleteDoc(doc(db, 'users', user.uid, 'tokens', token)).
removeToken(r, token) ==
    /\ removes[r].stage = "none"
    /\ \A g \in RemoveCalls : g < r => removes[g].stage # "none"
    /\ removes' = [removes EXCEPT ![r] =
                      IF authUser = NoUser
                      THEN [NoRemove EXCEPT !.stage = "done", !.token = token]
                      ELSE [NoRemove EXCEPT !.stage = "deleteDoc",
                                            !.uid = authUser, !.token = token]]
    /\ UNCHANGED << authUser, registry, saves >>
    /\ UNCHANGED varsOffRegistry

\* deleteDoc resolves, or rejects and the catch block logs.
deleteDocReturns(r, ok) ==
    /\ removes[r].stage = "deleteDoc"
    /\ removes' = [removes EXCEPT ![r] = [@ EXCEPT !.stage = "done",
                                                   !.deleted = ok]]
    /\ registry' = IF ok
                   THEN [registry EXCEPT
                            ![<< removes[r].uid, removes[r].token >>] =
                                NoRegistration]
                   ELSE registry
    /\ UNCHANGED << authUser, saves >>
    /\ UNCHANGED varsOffRegistry

NextRegistry ==
    \/ \E u \in Users : signIn(u)
    \/ signOut
    \/ \E s \in SaveCalls : \E t \in DeviceTokens : saveTokenToDatabase(s, t)
    \/ \E s \in SaveCalls : \E ok \in BOOLEAN : getUserSearchRadius(s, ok)
    \/ \E s \in SaveCalls : \E ok \in BOOLEAN : getUserLocation(s, ok)
    \/ \E s \in SaveCalls : \E ok \in BOOLEAN : setDocReturns(s, ok)
    \/ \E r \in RemoveCalls : \E t \in DeviceTokens : removeToken(r, t)
    \/ \E r \in RemoveCalls : \E ok \in BOOLEAN : deleteDocReturns(r, ok)

SpecRegistry == InitRegistry /\ [][NextRegistry]_vars

\* ------------------------------------------ claims on the NotificationService

\* The registration records that hold token value t, under any owner.
RecordsOf(t) == {p \in Paths : registry[p].exists /\ registry[p].token = t}

\* C21: whatever opt-ins the users of the browser have made, the collection
\* group holds at most one registration record per token value (a repeated
\* opt-in with a token replaces the record of that token).
C21_OneRecordPerToken ==
    \A t \in DeviceTokens : Cardinality(RecordsOf(t)) <= 1

\* C22: when a call of removeToken(token) has deleted its document, no
\* registration record with that token value remains, under any owner.
C22_RemoveTokenLeavesNoRecord ==
    [][\A r \in RemoveCalls :
          deleteDocReturns(r, TRUE) =>
              \A p \in Paths : ~(registry'[p].exists
                                 /\ registry'[p].token = removes[r].token)]_vars

\* ------------------------------------------------------------ MySales.jsx

InitMySalesPage ==
    /\ DispatcherIdle
    /\ InitHomePage
    /\ NoNotificationService
    /\ InitMySales
    /\ NoUsers
    /\ live = {}
    /\ geolocation = TRUE
    /\ comparison = NoComparison
    /\ added = << >>

\* What getDocs(query(collection(db, 'sales'), where('userId', '==', uid)))
\* returns: the status of every document of the user.
QuerySnapshot ==
    [d \in SaleDocIds |-> IF d <= Len(salesDocs) THEN salesDocs[d] ELSE "absent"]

\* salesData.find(sale => sale.status === 'live'), the documents being in
\* the order of their ids; 0 for undefined.
FindLive(salesData) ==
    IF \E d \in SaleDocIds : salesData[d] = "live"
    THEN CHOOSE d \in SaleDocIds :
            /\ salesData[d] = "live"
            /\ \A e \in SaleDocIds : salesData[e] = "live" => d <= e
    ELSE 0

\* No handler of the tab is suspended at an await.
Idle(p) == tasks[p].stage = "done"

\* The buttons of the page can be clicked: it has loaded, and neither the
\* confirmation dialog nor the create modal covers it.
PageShown(p) ==
    /\ ~pages[p].loading
    /\ ~pages[p].modalState.isOpen
    /\ ~pages[p].isCreateModalOpen

\* MySales mounts in tab p: the effect on currentUser calls fetchMySales.
MountMySales(p) ==
    /\ pages[p].loading
    /\ tasks[p].name = "none"
    /\ tasks' = [tasks EXCEPT ![p] = [NoTask EXCEPT !.name = "fetchMySales",
                                                    !.stage = "getDocs"]]
    /\ UNCHANGED << salesDocs, pages >>
    /\ UNCHANGED varsOffMySales

\* fetchMySales returns in tab p, called by the effect or awaited by a
\* handler: setUserLiveSale, setSales and setLoading(false), or setError when
\* getDocs rejects; handleConfirmEnd then closes the dialog.
fetchMySalesReturns(p, ok) ==
    /\ tasks[p].stage = "getDocs"
    /\ pages' = [pages EXCEPT ![p] =
                    [@ EXCEPT !.loading = FALSE,
                              !.sales = IF ok THEN QuerySnapshot ELSE @,
                              !.userLiveSale = IF ok THEN FindLive(QuerySnapshot)
                                               ELSE @,
                              !.modalState =
                                  IF tasks[p].name = "handleConfirmEnd"
                                  THEN [isOpen |-> FALSE, saleId |-> 0]
                                  ELSE @]]
    /\ tasks' = [tasks EXCEPT ![p].stage = "done"]
    /\ UNCHANGED salesDocs
    /\ UNCHANGED varsOffMySales

\* handleStatusChange(saleId, newStatus), called by the button 'Go Live' of a
\* sale shown as draft and by the button 'End Sale' of a sale shown as live:
\* 'ended' opens the dialog for the sale, 'live' calls updateDoc.
handleStatusChange(p, saleId, newStatus) ==
    /\ PageShown(p)
    /\ Idle(p)
    /\ \/ pages[p].sales[saleId] = "draft" /\ newStatus = "live"
       \/ pages[p].sales[saleId] = "live" /\ newStatus = "ended"
    /\ IF newStatus = "ended"
       THEN /\ pages' = [pages EXCEPT ![p].modalState =
                            [isOpen |-> TRUE, saleId |-> saleId]]
            /\ UNCHANGED tasks
       ELSE /\ tasks' = [tasks EXCEPT ![p] =
                            [NoTask EXCEPT !.name = "handleStatusChange",
                                           !.stage = "updateDoc",
                                           !.saleId = saleId,
                                           !.newStatus = newStatus]]
            /\ UNCHANGED pages
    /\ UNCHANGED salesDocs
    /\ UNCHANGED varsOffMySales

\* The floating button while userLiveSale is set: the dialog opens for it.
EndCurrentSale(p) ==
    /\ PageShown(p)
    /\ pages[p].userLiveSale # 0
    /\ pages' = [pages EXCEPT ![p].modalState =
                    [isOpen |-> TRUE, saleId |-> pages[p].userLiveSale]]
    /\ UNCHANGED << salesDocs, tasks >>
    /\ UNCHANGED varsOffMySales

\* The floating button while userLiveSale is null.
openCreateModal(p) ==
    /\ PageShown(p)
    /\ pages[p].userLiveSale = 0
    /\ pages' = [pages EXCEPT ![p].isCreateModalOpen = TRUE]
    /\ UNCHANGED << salesDocs, tasks >>
    /\ UNCHANGED varsOffMySales

\* onClose of the confirmation dialog, and of the create modal.
CloseDialog(p) ==
    /\ \/ pages[p].modalState.isOpen
       \/ pages[p].isCreateModalOpen
    /\ pages' = [pages EXCEPT ![p] =
                    IF pages[p].modalState.isOpen
                    THEN [@ EXCEPT !.modalState = [isOpen |-> FALSE, saleId |-> 0]]
                    ELSE [@ EXCEPT !.isCreateModalOpen = FALSE]]
    /\ UNCHANGED << salesDocs, tasks >>
    /\ UNCHANGED varsOffMySales

\* The button 'Confirm' of the dialog while userLiveSale is set
\* (onConfirm={userLiveSale ? handleEndSale : handleConfirmEnd}): handleEndSale,
\* to its await: updateDoc(doc(db, 'sales', userLiveSale.id)).
handleEndSale(p) ==
    /\ pages[p].modalState.isOpen
    /\ Idle(p)
    /\ pages[p].userLiveSale # 0
    /\ tasks' = [tasks EXCEPT ![p] =
                    [NoTask EXCEPT !.name = "handleEndSale",
                                   !.stage = "updateDoc",
                                   !.saleId = pages[p].userLiveSale,
                                   !.opened = pages[p].modalState.saleId,
                                   !.newStatus = "ended"]]
    /\ UNCHANGED << salesDocs, pages >>
    /\ UNCHANGED varsOffMySales

\* The button 'Confirm' while userLiveSale is null: handleConfirmEnd, to its
\* first await:
\* updateDoc(doc(db, 'sales', modalState.saleId)).
handleConfirmEnd(p) ==
    /\ pages[p].modalState.isOpen
    /\ Idle(p)
    /\ pages[p].userLiveSale = 0
    /\ tasks' = [tasks EXCEPT ![p] =
                    [NoTask EXCEPT !.name = "handleConfirmEnd",
                                   !.stage = "updateDoc",
                                   !.saleId = pages[p].modalState.saleId,
                                   !.opened = pages[p].modalState.saleId,
                                   !.newStatus = "ended"]]
    /\ UNCHANGED << salesDocs, pages >>
    /\ UNCHANGED varsOffMySales

\* updateDoc resolves or rejects in tab p.  handleStatusChange and
\* handleConfirmEnd go on to `await fetchMySales()`, or set the error (and
\* handleConfirmEnd closes the dialog); handleEndSale updates its state
\* (userLiveSale null, the sale ended in `sales`, the dialog closed), or sets
\* the error.
updateDocResolves(p, ok) ==
    /\ tasks[p].stage = "updateDoc"
    /\ salesDocs' = IF ok
                    THEN [salesDocs EXCEPT ![tasks[p].saleId] = tasks[p].newStatus]
                    ELSE salesDocs
    /\ tasks' = [tasks EXCEPT ![p] =
                    [@ EXCEPT !.written = ok,
                              !.stage = IF ok /\ tasks[p].name # "handleEndSale"
                                        THEN "getDocs"
                                        ELSE "done"]]
    /\ pages' = [pages EXCEPT ![p] =
                    CASE tasks[p].name = "handleEndSale" /\ ok ->
                            [@ EXCEPT !.userLiveSale = 0,
                                      !.sales = [d \in SaleDocIds |->
                                                    IF d = tasks[p].saleId
                                                       /\ pages[p].sales[d] # "absent"
                                                    THEN "ended"
                                                    ELSE pages[p].sales[d]],
                                      !.modalState = [isOpen |-> FALSE,
                                                      saleId |-> 0]]
                      [] tasks[p].name = "handleConfirmEnd" /\ ~ok ->
                            [@ EXCEPT !.modalState = [isOpen |-> FALSE,
                                                      saleId |-> 0]]
                      [] OTHER -> @]
    /\ UNCHANGED varsOffMySales

\* The documents the user may still create, those being created included.
CanCreate ==
    Len(salesDocs)
        + Cardinality({q \in Tabs : tasks[q].stage = "addDoc"}) < MaxSaleDocs

\* handleCreateSale, submitted from the create modal with its fields filled
\* and an address the geocoder resolves within range, to its addDoc.
handleCreateSale(p) ==
    /\ pages[p].isCreateModalOpen
    /\ Idle(p)
    /\ CanCreate
    /\ tasks' = [tasks EXCEPT ![p] =
                    [NoTask EXCEPT !.name = "handleCreateSale",
                                   !.stage = "addDoc",
                                   !.newStatus = "live"]]
    /\ UNCHANGED << salesDocs, pages >>
    /\ UNCHANGED varsOffMySales

\* addDoc resolves with the new document (the sale goes first in `sales`,
\* becomes userLiveSale, the modal closes), or rejects (setError).
addDocResolves(p, ok) ==
    /\ tasks[p].stage = "addDoc"
    /\ LET id == Len(salesDocs) + 1 IN
       IF ok
       THEN /\ salesDocs' = Append(salesDocs, tasks[p].newStatus)
            /\ pages' = [pages EXCEPT ![p] =
                            [@ EXCEPT !.sales = [pages[p].sales EXCEPT
                                                    ![id] = tasks[p].newStatus],
                                      !.userLiveSale = id,
                                      !.isCreateModalOpen = FALSE]]
            /\ tasks' = [tasks EXCEPT ![p] = [@ EXCEPT !.stage = "done",
                                                       !.saleId = id,
                                                       !.written = TRUE]]
       ELSE /\ tasks' = [tasks EXCEPT ![p].stage = "done"]
            /\ UNCHANGED << salesDocs, pages >>
    /\ UNCHANGED varsOffMySales

NextMySales ==
    \/ \E p \in Tabs : MountMySales(p)
    \/ \E p \in Tabs : \E ok \in BOOLEAN : fetchMySalesReturns(p, ok)
    \/ \E p \in Tabs : \E d \in SaleDocIds : \E st \in {"live", "ended"} :
            handleStatusChange(p, d, st)
    \/ \E p \in Tabs : EndCurrentSale(p)
    \/ \E p \in Tabs : openCreateModal(p)
    \/ \E p \in Tabs : CloseDialog(p)
    \/ \E p \in Tabs : handleEndSale(p)
    \/ \E p \in Tabs : handleConfirmEnd(p)
    \/ \E p \in Tabs : \E ok \in BOOLEAN : updateDocResolves(p, ok)
    \/ \E p \in Tabs : handleCreateSale(p)
    \/ \E p \in Tabs : \E ok \in BOOLEAN : addDocResolves(p, ok)

SpecMySales == InitMySalesPage /\ [][NextMySales]_vars

\* --------------------------------------------------------- claims on MySales

InitRules ==
    /\ DispatcherIdle
    /\ InitHomePage
    /\ NoNotificationService
    /\ NoMySales
    /\ InitUsers
    /\ live = {}
    /\ geolocation = TRUE
    /\ comparison = NoComparison
    /\ added = << >>

\* function isAdmin(): the requester's document exists and its isAdmin is
\* true (a missing field makes the comparison an error, which denies).
RulesIsAdmin(uid) ==
    /\ uid # NoUser
    /\ userDocs[uid].exists
    /\ userDocs[uid].isAdmin = "true"

\* allow create: if request.auth != null && request.auth.uid == userId;
AllowCreate(uid, userId, data) == uid # NoUser /\ uid = userId

\* The two `allow update` statements: the owner, keeping isAdmin as it is
\* (reading resource.data.isAdmin of a document without the field is an
\* error, which denies), or an administrator changing isAdmin only.
AllowUpdate(uid, userId, data) ==
    LET resource == userDocs[userId] IN
    \/ /\ uid # NoUser
       /\ uid = userId
       /\ \/ data.isAdmin = "absent"
          \/ resource.isAdmin # "absent" /\ data.isAdmin = resource.isAdmin
    \/ /\ uid # NoUser
       /\ RulesIsAdmin(uid)
       /\ data.email = resource.email

\* allow delete: if request.auth != null && request.auth.uid == userId;
AllowDelete(uid, userId) == uid # NoUser /\ uid = userId

\* Account uid writes users/{userId} where there is no document (a create
\* request), where there is one (an update request), or deletes it; the
\* request is applied if the rules allow it.
CreateUserDoc(uid, userId, data) ==
    /\ ~userDocs[userId].exists
    /\ AllowCreate(uid, userId, data)
    /\ userDocs' = [userDocs EXCEPT ![userId] = UserDoc(data)]
    /\ UNCHANGED varsOffRules

UpdateUserDoc(uid, userId, data) ==
    /\ userDocs[userId].exists
    /\ UserDoc(data) # userDocs[userId]
    /\ AllowUpdate(uid, userId, data)
    /\ userDocs' = [userDocs EXCEPT ![userId] = UserDoc(data)]
    /\ UNCHANGED varsOffRules

DeleteUserDoc(uid, userId) ==
    /\ userDocs[userId].exists
    /\ AllowDelete(uid, userId)
    /\ userDocs' = [userDocs EXCEPT ![userId] = NoUserDoc]
    /\ UNCHANGED varsOffRules

NextRules ==
    \/ \E uid \in Accounts : \E userId \in Accounts : \E data \in UserData :
            CreateUserDoc(uid, userId, data)
    \/ \E uid \in Accounts : \E userId \in Accounts : \E data \in UserData :
            UpdateUserDoc(uid, userId, data)
    \/ \E uid \in Accounts : \E userId \in Accounts : DeleteUserDoc(uid, userId)

SpecRules == InitRules /\ [][NextRules]_vars

\* ----------------------------------------------------- claims on the rules

\* C25: no create, update or delete request that a user who is not an
\* administrator makes on their own user document leaves that document with
\* isAdmin == true.
C25_NoSelfPromotion ==
    [][\A uid \in Accounts :
          (/\ ~RulesIsAdmin(uid)
           /\ \/ \E data \in UserData : CreateUserDoc(uid, uid, data)
              \/ \E data \in UserData : UpdateUserDoc(uid, uid, data)
              \/ DeleteUserDoc(uid, uid))
          => ~(userDocs'[uid].exists /\ userDocs'[uid].isAdmin = "true")]_vars

\* ------------------------------------- the address field of the create modal

\* The state outside the Home page's feed, flows and address field.
varsOffAddress == << varsD, varsL, varsC, varsR, varsM, varsP, varsA >>

InitAddress ==
    /\ DispatcherIdle
    /\ InitHome
    /\ live = {}
    /\ geolocation = TRUE
    /\ comparison = NoComparison
    /\ added = << >>

\* What getAddressComponentsFromAddress returns as coordinates: the address
\* that resolves lies 0.3 mile north of the origin; the others give null.
AddressCoordinates(a) == IF Resolvable(a) THEN At(Origin + 30) ELSE NoLocation

\* if (distance > 0.5): half a mile, in distance units.
HalfMile == UnitsPerMile \div 2

\* The button 'Edit' next to the address.
EditAddress ==
    /\ isModalOpen
    /\ ~isConfirmationOpen
    /\ ~isEditingAddress
    /\ isEditingAddress' = TRUE
    /\ UNCHANGED << addressError, addressSave >>
    /\ UNCHANGED << varsS, varsF >>
    /\ UNCHANGED varsOffAddress

\* onChange of the address input: setAddress, setAddressError('').
AddressInput(a) ==
    /\ isModalOpen
    /\ ~isConfirmationOpen
    /\ isEditingAddress
    /\ a # address
    /\ address' = a
    /\ addressError' = ""
    /\ UNCHANGED << isEditingAddress, addressSave >>
    /\ UNCHANGED << userLiveSale, fetched, isModalOpen, isConfirmationOpen,
                    confirmationType, newSale, isSubmitting, added, updates,
                    handlers, flow >>
    /\ UNCHANGED varsF
    /\ UNCHANGED varsOffAddress

\* onClick of the button 'Save', to its await of
\* getAddressComponentsFromAddress(address).
SaveAddressClick ==
    /\ isModalOpen
    /\ ~isConfirmationOpen
    /\ isEditingAddress
    /\ ~addressSave.pending
    /\ addressSave' = [pending |-> TRUE, address |-> address,
                       coordinates |-> coordinates]
    /\ UNCHANGED << isEditingAddress, addressError >>
    /\ UNCHANGED << varsS, varsF >>
    /\ UNCHANGED varsOffAddress

\* The click resumes.  Without coordinates for the address it sets the error;
\* for a viewer who is not an administrator it computes the distance from the
\* tracked coordinates (a TypeError, caught, when there are none) and
\* refuses an address more than 0.5 mile away; otherwise setCoordinates with
\* the coordinates of the address, setAddress, setIsEditingAddress(false).
\* The sales listener effect runs for the new coordinates object while the
\* page is mounted.
SaveAddressReturns ==
    /\ addressSave.pending
    /\ addressSave' = NoSaveClick
    /\ LET addressInfo == AddressCoordinates(addressSave.address)
           prev == addressSave.coordinates
           refused ==
               IF ~addressInfo.defined
               THEN "Invalid address. Please enter a valid address with street, city, state, and ZIP code."
               ELSE IF isAdmin THEN ""
               ELSE IF ~prev.defined
               THEN "Error validating address. Please try again."
               ELSE IF calculateDistance(prev.latitude, prev.longitude,
                                         addressInfo.latitude,
                                         addressInfo.longitude) > HalfMile
               THEN "Address must be within 0.5 miles of your current location."
               ELSE ""
       IN IF refused # ""
          THEN /\ addressError' = refused
               /\ UNCHANGED << isEditingAddress, address, coordinates, listener,
                               loading, error >>
          ELSE /\ coordinates' = addressInfo
               /\ IF ~tornDown
                  THEN SalesListenerEffect(addressInfo, radius)
                  ELSE UNCHANGED << listener, loading, error >>
               /\ address' = addressSave.address
               /\ isEditingAddress' = FALSE
               /\ addressError' = ""
    /\ UNCHANGED << live, radius, sales, pending, pub >>
    /\ UNCHANGED << userLiveSale, fetched, isModalOpen, isConfirmationOpen,
                    confirmationType, newSale, isSubmitting, added, updates,
                    handlers, flow >>
    /\ UNCHANGED varsOffAddress

NextAddress ==
    \/ \E lat \in Positions : PositionReported(lat)
    \/ handleAddSaleClick
    \/ CancelModal
    \/ EditAddress
    \/ \E a \in Addresses : AddressInput(a)
    \/ SaveAddressClick
    \/ SaveAddressReturns

SpecAddress == InitAddress /\ [][NextAddress]_vars

\* C26: the tracked coordinates change only in a step in which the device
\* reports a position that is the first one or more than 0.1 mile from the
\* coordinates held; no other step (saving an edited address in the create
\* modal included) changes them.
C26_CoordinatesChangeOnlyByPositionReport ==
    [][coordinates' # coordinates =>
          \E lat \in Positions :
              /\ PositionReported(lat)
              /\ SignificantChange(coordinates, lat, Meridian)]_vars

\* ----------------------------------------- claim on the live sales of a user

\* C28: at any time the signed-in user has at most one document in 'sales'
\* with status 'live'.
C28_AtMostOneLiveSale == Cardinality(LiveDocs) <= 1


\* ------------------------------------------------------------ AuthProvider
\* The provider of locationUtils.js: Firebase Auth holds the signed-in account
\* (authUser) and calls the observer of onAuthStateChanged back once per
\* change, in order; the observer awaits checkAdminStatus, so a getDoc of an
\* earlier callback can return after later callbacks have run.

InitAuth ==
    /\ DispatcherIdle
    /\ InitHomePage
    /\ NoNotificationService
    /\ NoMySales
    /\ InitUsers
    /\ live = {}
    /\ geolocation = TRUE
    /\ comparison = NoComparison
    /\ added = << >>

\* login(email, password): signInWithEmailAndPassword signs account u in and
\* Firebase Auth queues the callback of the observer.
login(u) ==
    /\ logins < MaxLogins
    /\ authUser # u
    /\ authUser' = u
    /\ authEvents' = Append(authEvents, u)
    /\ logins' = logins + 1
    /\ UNCHANGED << currentUser, isAdmin, authLoading, lookups >>
    /\ UNCHANGED << registry, saves, removes >>
    /\ UNCHANGED varsOffAuth

\* logout(): setIsAdmin(false); return signOut(auth).
logout ==
    /\ authUser # NoUser
    /\ isAdmin' = FALSE
    /\ authUser' = NoUser
    /\ authEvents' = Append(authEvents, NoUser)
    /\ UNCHANGED << currentUser, authLoading, lookups, logins >>
    /\ UNCHANGED << registry, saves, removes >>
    /\ UNCHANGED varsOffAuth

\* The observer, up to its await: with a user it sets currentUser and calls
\* checkAdminStatus(user.uid), which issues getDoc; with null it clears
\* currentUser and isAdmin and sets loading to false.
AuthStateChanged ==
    /\ authEvents # << >>
    /\ authEvents' = Tail(authEvents)
    /\ currentUser' = Head(authEvents)
    /\ IF Head(authEvents) # NoUser
          THEN /\ lookups' = Append(lookups, Head(authEvents))
               /\ UNCHANGED << isAdmin, authLoading >>
          ELSE /\ isAdmin' = FALSE
               /\ authLoading' = FALSE
               /\ UNCHANGED lookups
    /\ UNCHANGED logins
    /\ UNCHANGED varsR
    /\ UNCHANGED varsOffAuth

\* getDoc of the i-th call of checkAdminStatus in flight returns (ok) or
\* rejects: setIsAdmin(userDoc.data().isAdmin || false) for a document that
\* exists, setIsAdmin(false) otherwise; the observer then sets loading false.
checkAdminStatusReturns(i, ok) ==
    /\ i \in 1..Len(lookups)
    /\ isAdmin' = (/\ ok
                   /\ userDocs[lookups[i]].exists
                   /\ userDocs[lookups[i]].isAdmin = "true")
    /\ authLoading' = FALSE
    /\ lookups' = [k \in 1..(Len(lookups) - 1) |->
                      IF k < i THEN lookups[k] ELSE lookups[k + 1]]
    /\ UNCHANGED << currentUser, authEvents, logins >>
    /\ UNCHANGED varsR
    /\ UNCHANGED varsOffAuth

NextAuth ==
    \/ \E u \in Accounts : login(u)
    \/ logout
    \/ AuthStateChanged
    \/ \E i \in 1..(MaxLogins + 1), ok \in BOOLEAN : checkAdminStatusReturns(i, ok)

SpecAuth == InitAuth /\ [][NextAuth]_vars

\* C30: in every state of the auth context, isAdmin is true only if a user is
\* signed in (currentUser is not null) and the document users/{uid} of that
\* user exists with isAdmin true.
C30_IsAdminOnlyForSignedInAdmin ==
    isAdmin => /\ currentUser # NoUser
               /\ userDocs[currentUser].exists
               /\ userDocs[currentUser].isAdmin = "true"

=============================================================================
